---- MODULE Spec2Model ----
(***************************************************************************)
(* Model of the monitoring harness of the Public Transportation Journey    *)
(* Planner: monitor_test_script.py (TransportSystemMonitor, run_monitors,  *)
(* main) and the report of enhanced_monitor_test.py.                       *)
(*                                                                         *)
(* Units: a success rate is held in hundredths of a percent (9000 is       *)
(* 90.00 %), a latency in hundredths of a millisecond (2000 is 20.00 ms),  *)
(* a measured duration in thousandths of a millisecond.  These are the     *)
(* values round(x, 2) can produce, scaled to integers.                     *)
(***************************************************************************)
EXTENDS Integers, Sequences, FiniteSets, TLC

VARIABLES
    base_url,               \* self.base_url
    retries,                \* self.retries
    concurrent_threads,     \* self.concurrent_threads
    concurrent_iterations,  \* self.concurrent_iterations
    log_lines,              \* self.log_lines
    endpoint_results,       \* self.endpoint_results
    context,                \* self.context
    lock,                   \* self.lock: 0 when free, else the holder
    pc,                     \* position of run_full_test_suite (main thread)
    bi,                     \* index of the next seed request of the bootstrap
    plan,                   \* the list build_test_plan returned
    gi,                     \* index of the current group of the plan
    si,                     \* index of the current spec in the group
    te,                     \* the main thread's test_endpoint call
    workers,                \* the threads of the pool of run_performance_checks
    queue,                  \* the work queue of the pool: submitted, not yet taken
    summary,                \* summary of run_full_test_suite
    monitor_run,            \* the dict run_full_test_suite returns
    faults,                 \* incidents the target may still cause
    outage,                 \* the endpoint under call is unreachable
    args,                   \* main: the parsed command line
    run_results,            \* main: results, the list run_monitors returns
    exit_code,              \* main: the value returned, -1 before it returns
    test_stats,             \* EnhancedTransportSystemMonitor.test_stats
    status_line             \* the SYSTEM STATUS line of the enhanced report

\* what lies outside the TransportSystemMonitor and its run
outside == <<args, run_results, exit_code, test_stats, status_line>>

\* the TransportSystemMonitor and its run
inside == <<base_url, retries, concurrent_threads, concurrent_iterations,
            log_lines, endpoint_results, context, lock, pc, bi, plan, gi, si, te,
            workers, queue, summary, monitor_run, faults, outage>>

vars == <<inside, outside>>

(***************************************************************************)
(* Bounds of the model.                                                    *)
(***************************************************************************)
MaxRetries == 1
MaxFaults == 1

(***************************************************************************)
(* Python values that travel through the Context: None, a string, a number.*)
(***************************************************************************)
PyNone == [t |-> "none", s |-> "", n |-> 0]
PyStr(s) == [t |-> "str", s |-> s, n |-> 0]
PyNum(n) == [t |-> "num", s |-> "", n |-> n]

\* bool(v) of a scalar
Truthy(v) ==
    CASE v.t = "none" -> FALSE
      [] v.t = "str" -> v.s # ""
      [] v.t = "num" -> v.n # 0

\* isinstance(c, (int, float))
IsNumber(c) == c.t = "num"

\* a coordinate pair of the Context; NoCoords stands for an absent key
NoCoords == <<>>
CoordsNumeric(coords) == \A i \in 1..Len(coords) : IsNumber(coords[i])

(***************************************************************************)
(* EndpointSpec                                                            *)
(***************************************************************************)
NoParams == <<>>

EndpointSpec(name, path) ==
    [name |-> name, path |-> path, method |-> "GET", expected_status |-> 200,
     params |-> NoParams, json |-> NoParams]

SpecWithParams(name, path, params) ==
    [EndpointSpec(name, path) EXCEPT !.params = params]

SpecPost(name, path, body) ==
    [EndpointSpec(name, path) EXCEPT !.method = "POST", !.json = body]

Param(k, v) == [k |-> k, v |-> v]

(***************************************************************************)
(* What a seed GET can bring back, and _fetch_json.                        *)
(* A JSON value is None, a list of items, or something else (an object, a  *)
(* scalar).  An item is a JSON object (dict) with the fields read by the   *)
(* bootstrap, a missing field reading as None, or it is not an object, in  *)
(* which case item.get raises AttributeError.                              *)
(***************************************************************************)
JNone == [j |-> "none", items |-> <<>>]
JOther == [j |-> "other", items |-> <<>>]
JList(items) == [j |-> "list", items |-> items]

Stop(name, lat, lon) ==
    [dict |-> TRUE, name |-> name, latitude |-> lat, longitude |-> lon]
NotADict == [dict |-> FALSE, name |-> PyNone, latitude |-> PyNone, longitude |-> PyNone]

StopA == Stop(PyStr("A"), PyNum(1), PyNum(2))
StopB == Stop(PyStr("B"), PyNum(3), PyNum(4))
StopBare == Stop(PyNone, PyNone, PyNone)
StopOdd == Stop(PyStr(""), PyStr("x"), PyNum(2))

\* the HTTP exchange of a seed request
HttpError == [kind |-> "error", status |-> 0, is_json |-> FALSE, value |-> JNone]
HttpResponse(status, is_json, value) ==
    [kind |-> "response", status |-> status, is_json |-> is_json, value |-> value]

NominalSeed == HttpResponse(200, TRUE, JList(<<StopA, StopB>>))

SeedAnomalies ==
    { HttpError,
      HttpResponse(503, TRUE, JList(<<StopA, StopB>>)),
      HttpResponse(200, FALSE, JNone),
      HttpResponse(200, TRUE, JOther),
      HttpResponse(200, TRUE, JList(<<>>)),
      HttpResponse(200, TRUE, JList(<<StopA>>)),
      HttpResponse(200, TRUE, JList(<<StopB, StopB>>)),
      HttpResponse(200, TRUE, JList(<<StopBare, StopA>>)),
      HttpResponse(200, TRUE, JList(<<StopOdd, StopA>>)),
      HttpResponse(200, TRUE, JList(<<StopA, NotADict>>)),
      HttpResponse(200, TRUE, JList(<<NotADict>>)) }

SeedResponses == {NominalSeed} \cup SeedAnomalies

_fetch_json(resp) ==
    IF resp.kind = "error" THEN JNone
    ELSE IF resp.status # 200 THEN JNone
    ELSE IF ~resp.is_json THEN JNone
    ELSE resp.value

IsNonEmptyList(items) == items.j = "list" /\ Len(items.items) > 0

\* items[0].get("name") or None; raises when items[0] is no dict
_first_name(items) ==
    IF IsNonEmptyList(items) THEN items.items[1].name ELSE PyNone
FirstNameRaises(items) == IsNonEmptyList(items) /\ ~items.items[1].dict

\* _second_name reading the first element
_second_name_of_first(items) ==
    IF items.j = "list" /\ Len(items.items) > 1 THEN items.items[1].name ELSE PyNone

_second_name(items) ==
    IF items.j = "list" /\ Len(items.items) > 1 THEN items.items[2].name ELSE PyNone
SecondNameRaises(items) ==
    items.j = "list" /\ Len(items.items) > 1 /\ ~items.items[2].dict

(***************************************************************************)
(* bootstrap_context, one seed request at a time.                          *)
(***************************************************************************)
EmptyContext ==
    [graph_stop |-> PyNone, graph_stop_alt |-> PyNone, graph_coords |-> NoCoords,
     train_stop |-> PyNone, ga_stop |-> PyNone, ga_stop_alt |-> PyNone,
     myciti_stop |-> PyNone, myciti_stop_alt |-> PyNone, taxi_coords |-> NoCoords]

BootSteps == <<"graph", "train", "ga", "ga_alt", "myciti", "myciti_alt", "taxi">>

CoordsOf(item) == <<item.latitude, item.longitude>>

\* lines 84-94
BootGraph(ctx, v) ==
    IF ~IsNonEmptyList(v) THEN ctx
    ELSE IF ~v.items[1].dict THEN ctx
    ELSE LET c1 == [ctx EXCEPT !.graph_stop = v.items[1].name]
         IN  IF Len(v.items) > 1 /\ ~v.items[2].dict THEN c1
             ELSE LET c2 == IF Len(v.items) > 1
                            THEN [c1 EXCEPT !.graph_stop_alt = v.items[2].name]
                            ELSE c1
                  IN  IF CoordsNumeric(CoordsOf(v.items[1]))
                      THEN [c2 EXCEPT !.graph_coords = CoordsOf(v.items[1])]
                      ELSE c2

\* lines 101-106
BootTaxi(ctx, v) ==
    IF IsNonEmptyList(v) /\ v.items[1].dict
    THEN [ctx EXCEPT !.taxi_coords = CoordsOf(v.items[1])]
    ELSE ctx

\* the Context after the seed request of `step` was answered by resp
ApplySeed(ctx, step, resp) ==
    LET v == _fetch_json(resp) IN
    CASE step = "graph" -> BootGraph(ctx, v)
      [] step = "train" ->
            IF FirstNameRaises(v) THEN ctx ELSE [ctx EXCEPT !.train_stop = _first_name(v)]
      [] step = "ga" ->
            IF FirstNameRaises(v) THEN ctx ELSE [ctx EXCEPT !.ga_stop = _first_name(v)]
      [] step = "ga_alt" ->
            IF SecondNameRaises(v) THEN ctx ELSE [ctx EXCEPT !.ga_stop_alt = _second_name(v)]
      [] step = "myciti" ->
            IF FirstNameRaises(v) THEN ctx ELSE [ctx EXCEPT !.myciti_stop = _first_name(v)]
      [] step = "myciti_alt" ->
            IF SecondNameRaises(v)
            THEN ctx ELSE [ctx EXCEPT !.myciti_stop_alt = _second_name(v)]
      [] step = "taxi" -> BootTaxi(ctx, v)

\* whether that step ends in an AttributeError (item.get on a non-dict)
SeedRaises(step, resp) ==
    LET v == _fetch_json(resp) IN
    CASE step = "graph" ->
            /\ IsNonEmptyList(v)
            /\ \/ ~v.items[1].dict
               \/ Len(v.items) > 1 /\ ~v.items[2].dict
      [] step \in {"train", "ga", "myciti"} -> FirstNameRaises(v)
      [] step \in {"ga_alt", "myciti_alt"} -> SecondNameRaises(v)
      [] step = "taxi" -> IsNonEmptyList(v) /\ ~v.items[1].dict


(***************************************************************************)
(* build_test_plan                                                         *)
(***************************************************************************)
Group(name, specs) == [group |-> name, specs |-> specs]

GraphSpecs(ctx) ==
    LET graph_stop == ctx.graph_stop
        graph_stop_alt == ctx.graph_stop_alt
        coords == ctx.graph_coords
    IN  <<EndpointSpec("Graph metrics", "/api/graph/metrics"),
          EndpointSpec("Graph stops", "/api/graph/stops")>>
        \o (IF Truthy(graph_stop)
            THEN <<EndpointSpec("Graph stop detail", "/api/graph/stops/" \o graph_stop.s)>>
            ELSE <<>>)
        \o (IF coords # NoCoords /\ CoordsNumeric(coords)
            THEN <<SpecWithParams("Graph nearest stop", "/api/graph/stops/nearest",
                      <<Param("lat", coords[1]), Param("lon", coords[2])>>)>>
            ELSE <<>>)
        \o (IF Truthy(graph_stop) /\ Truthy(graph_stop_alt)
            THEN <<SpecWithParams("Graph journey", "/api/graph/journey",
                      <<Param("from", graph_stop), Param("to", graph_stop_alt),
                        Param("time", PyStr("07:30")), Param("day", PyStr("WEEKDAY"))>>)>>
            ELSE <<>>)

\* lines 253-268 with the journey depending on the primary name alone
GASpecsPrimaryOnly(ctx) ==
    LET ga_stop == ctx.ga_stop
        ga_stop_alt == ctx.ga_stop_alt
    IN  <<EndpointSpec("GA metrics", "/api/GA/metrics"),
          EndpointSpec("GA stops", "/api/GA/stops"),
          EndpointSpec("GA trips", "/api/GA/trips")>>
        \o (IF Truthy(ga_stop)
            THEN <<SpecWithParams("GA journey", "/api/GA/journey",
                      <<Param("source", ga_stop), Param("target", ga_stop_alt),
                        Param("departure", PyStr("07:45")), Param("maxRounds", PyNum(4))>>)>>
            ELSE <<>>)

GASpecs(ctx) ==
    LET ga_stop == ctx.ga_stop
        ga_stop_alt == ctx.ga_stop_alt
    IN  <<EndpointSpec("GA metrics", "/api/GA/metrics"),
          EndpointSpec("GA stops", "/api/GA/stops"),
          EndpointSpec("GA trips", "/api/GA/trips")>>
        \o (IF Truthy(ga_stop) /\ Truthy(ga_stop_alt)
            THEN <<SpecWithParams("GA journey", "/api/GA/journey",
                      <<Param("source", ga_stop), Param("target", ga_stop_alt),
                        Param("departure", PyStr("07:45")), Param("maxRounds", PyNum(4))>>)>>
            ELSE <<>>)

MyCitiSpecs(ctx) ==
    LET myciti_stop == ctx.myciti_stop
        myciti_stop_alt == ctx.myciti_stop_alt
    IN  <<EndpointSpec("MyCiti metrics", "/api/myciti/metrics"),
          EndpointSpec("MyCiti stops", "/api/myciti/stops"),
          EndpointSpec("MyCiti trips", "/api/myciti/trips")>>
        \o (IF Truthy(myciti_stop) /\ Truthy(myciti_stop_alt)
            THEN <<SpecWithParams("MyCiti journey", "/api/myciti/journey",
                      <<Param("source", myciti_stop), Param("target", myciti_stop_alt),
                        Param("departure", PyStr("08:00")), Param("maxRounds", PyNum(4))>>)>>
            ELSE <<>>)

\* lines 295-309 with the whole group depending on the sampled stop
TrainSpecsAllDynamic(ctx) ==
    LET train_stop == ctx.train_stop
    IN  IF Truthy(train_stop)
        THEN <<EndpointSpec("Train metrics", "/api/train/metrics"),
               EndpointSpec("Train stops", "/api/train/stops"),
               EndpointSpec("Train stop detail", "/api/train/stops/" \o train_stop.s),
               SpecWithParams("Train journey", "/api/train/journey",
                  <<Param("from", train_stop), Param("to", train_stop),
                    Param("time", PyStr("06:30"))>>)>>
        ELSE <<>>

TrainSpecs(ctx) ==
    LET train_stop == ctx.train_stop
    IN  <<EndpointSpec("Train metrics", "/api/train/metrics"),
          EndpointSpec("Train stops", "/api/train/stops")>>
        \o (IF Truthy(train_stop)
            THEN <<EndpointSpec("Train stop detail", "/api/train/stops/" \o train_stop.s),
                   SpecWithParams("Train journey", "/api/train/journey",
                      <<Param("from", train_stop), Param("to", train_stop),
                        Param("time", PyStr("06:30"))>>)>>
            ELSE <<>>)

TaxiSpecs(ctx) ==
    LET taxi_coords == IF ctx.taxi_coords # NoCoords
                       THEN ctx.taxi_coords ELSE ctx.graph_coords
    IN  <<EndpointSpec("Taxi metrics", "/api/taxi/metrics"),
          EndpointSpec("Taxi all stops", "/api/taxi/all-stops"),
          EndpointSpec("Taxi all trips", "/api/taxi/all-trips")>>
        \o (IF taxi_coords # NoCoords /\ CoordsNumeric(taxi_coords)
            THEN <<SpecPost("Taxi nearest stops", "/api/taxi/nearest-stops",
                      <<Param("location.latitude", taxi_coords[1]),
                        Param("location.longitude", taxi_coords[2]),
                        Param("max", PyNum(5))>>)>>
            ELSE <<>>)

AdminSpecs ==
    <<EndpointSpec("Admin system metrics", "/api/admin/systemMetrics"),
      EndpointSpec("Admin files in use", "/api/admin/GetFileInUse"),
      EndpointSpec("Admin recent calls", "/api/admin/MostRecentCall")>>

GraphNames == <<"train", "bus", "taxi">>

MonitorGraphSpecs(graph_name) ==
    <<EndpointSpec("Monitor graph " \o graph_name \o " ready",
                   "/api/monitor/graph/" \o graph_name \o "/ready"),
      EndpointSpec("Monitor graph " \o graph_name \o " status",
                   "/api/monitor/graph/" \o graph_name)>>

MonitorSpecs ==
    <<EndpointSpec("Monitor health", "/api/monitor/health"),
      EndpointSpec("Monitor summary", "/api/monitor/summary"),
      EndpointSpec("Monitor ready", "/api/monitor/ready"),
      EndpointSpec("Monitor stats", "/api/monitor/stats"),
      EndpointSpec("Monitor alerts", "/api/monitor/alerts"),
      EndpointSpec("Monitor alerts all", "/api/monitor/alerts/all"),
      EndpointSpec("Monitor performance", "/api/monitor/performance"),
      SpecPost("Monitor health check", "/api/monitor/health/check", NoParams)>>
    \o MonitorGraphSpecs(GraphNames[1])
    \o MonitorGraphSpecs(GraphNames[2])
    \o MonitorGraphSpecs(GraphNames[3])

build_test_plan(ctx) ==
    <<Group("Graph", GraphSpecs(ctx)),
      Group("GA Bus", GASpecs(ctx)),
      Group("MyCiti Bus", MyCitiSpecs(ctx)),
      Group("Train", TrainSpecs(ctx)),
      Group("Taxi", TaxiSpecs(ctx)),
      Group("Admin", AdminSpecs),
      Group("Monitor", MonitorSpecs)>>

\* the targets of run_performance_checks
PerformanceTargets ==
    <<EndpointSpec("Performance snapshot", "/api/monitor/performance"),
      EndpointSpec("Graph metrics snapshot", "/api/graph/metrics"),
      EndpointSpec("Admin system metrics snapshot", "/api/admin/systemMetrics")>>


(***************************************************************************)
(* Rounding: round(x, 2) of the float nearest to n / d, scaled by 100, for *)
(* n >= 0 and d > 0: the nearest integer to n / d.  When n / d lies exactly*)
(* halfway between two integers the float that Python rounds lies on one   *)
(* side or the other (or, when it is exact, goes to the even neighbour):   *)
(* `up` in {0, 1} is the side taken.                                       *)
(***************************************************************************)
RoundNearest(n, d, up) ==
    LET q == n \div d
        r == n % d
    IN  IF 2 * r < d THEN q
        ELSE IF 2 * r > d THEN q + 1
        ELSE q + up

TieSides == {0, 1}

(***************************************************************************)
(* The HTTP exchange of one attempt of test_endpoint.  duration is the     *)
(* measured (time.time() - start_time) * 1000 in thousandths of a ms.      *)
(***************************************************************************)
Statuses == {200, 204, 503}
Durations == {10000, 20000, 30005}

\* the side matters only where round(x, 2) meets a tie
Sides(duration) == IF duration % 10 = 5 THEN TieSides ELSE {0}

Response(status, is_json, duration, up) ==
    [kind |-> "response", status |-> status, is_json |-> is_json,
     duration |-> duration, up |-> up]
RequestException(duration, up) ==
    [kind |-> "error", status |-> 0, is_json |-> FALSE,
     duration |-> duration, up |-> up]

Measured == UNION {{<<d, up>> : up \in Sides(d)} : d \in Durations}

Responses ==
    {Response(st, j, m[1], m[2]) : st \in Statuses, j \in BOOLEAN, m \in Measured}
RequestExceptions == {RequestException(m[1], m[2]) : m \in Measured}

\* what the target answers when nothing is wrong, and the incidents of a run
NominalResponse == Response(200, TRUE, 10000, 0)
BadStatusResponse == Response(503, TRUE, 10000, 0)
NominalException == RequestException(10000, 0)

(***************************************************************************)
(* log and _record_endpoint_result, as the lists they leave behind.        *)
(***************************************************************************)
LogEntry(message, level) == [level |-> level, message |-> message]

log(lines, message, level) == Append(lines, LogEntry(message, level))

\* line 75 marking the failed attempt that the result is a retry of
_record_endpoint_result_retried(results, result) ==
    IF /\ results # <<>>
       /\ results[Len(results)].name = result.name
       /\ ~results[Len(results)].success
    THEN Append([results EXCEPT ![Len(results)].error = "retried"], result)
    ELSE Append(results, result)

\* line 75 putting the result in front
_record_endpoint_result_first(results, result) == <<result>> \o results

\* lines 73-75: self.endpoint_results.append(result)
_record_endpoint_result(results, result) == Append(results, result)

(***************************************************************************)
(* test_endpoint                                                           *)
(***************************************************************************)
NoResult ==
    [base_url |-> "", name |-> "", endpoint |-> "", status_code |-> -1,
     response_time_ms |-> 0, success |-> FALSE, data |-> "absent", error |-> "absent"]

\* line 160 with the default status in place of the spec's
ResponseSuccessOk(spec, resp) == resp.status = 200

\* line 160 with the success tied to a JSON payload
ResponseSuccessJson(spec, resp) ==
    resp.status = spec.expected_status /\ resp.is_json

\* lines 157-174: the result of an attempt that received a response
ResponseSuccess(spec, resp) == resp.status = spec.expected_status

ResponseResult(url, spec, resp) ==
    [base_url |-> url,
     name |-> spec.name,
     endpoint |-> spec.path,
     status_code |-> resp.status,
     response_time_ms |-> RoundNearest(resp.duration, 10, resp.up),
     success |-> ResponseSuccess(spec, resp),
     data |-> IF resp.is_json THEN "json" ELSE "text",
     error |-> "absent"]

\* lines 190-199 with the status the spec expects in place of 0
ExceptionResultExpected(url, spec, exc) ==
    [base_url |-> url,
     name |-> spec.name,
     endpoint |-> spec.path,
     status_code |-> spec.expected_status,
     response_time_ms |-> RoundNearest(exc.duration, 10, exc.up),
     success |-> FALSE,
     data |-> "absent",
     error |-> "RequestException"]

\* lines 187-199: the result of an attempt that ended in a RequestException
ExceptionResult(url, spec, exc) ==
    [base_url |-> url,
     name |-> spec.name,
     endpoint |-> spec.path,
     status_code |-> 0,
     response_time_ms |-> RoundNearest(exc.duration, 10, exc.up),
     success |-> FALSE,
     data |-> "absent",
     error |-> "RequestException"]

\* lines 177-184: the log line of an attempt that received a response
ResponseLog(lines, spec, result) ==
    IF result.success
    THEN log(lines, "ok " \o spec.name, "INFO")
    ELSE log(lines, "unexpected status " \o spec.name, "WARN")

\* line 202
ExceptionLog(lines, spec) == log(lines, "request error " \o spec.name, "ERROR")

\* lines 177 and 201 without the test
AttemptLogAlways(log_request, lines, logged) == logged

\* lines 177 and 201: if log_request; the log is left as it is otherwise
AttemptLog(log_request, lines, logged) == IF log_request THEN logged ELSE lines

IdleCall ==
    [status |-> "idle", spec |-> EndpointSpec("", ""), log_request |-> TRUE,
     attempt |-> 0, last_exception |-> FALSE, result |-> NoResult,
     base |-> 0, seen |-> <<>>]

\* lines 135-138: the call is entered.  base and seen are bookkeeping of the
\* model: the length of the store at entry and the exchanges of the attempts
\* made so far, in order.
EnterCall(spec, log_request, results) ==
    [status |-> "running", spec |-> spec, log_request |-> log_request,
     attempt |-> 0, last_exception |-> FALSE, result |-> NoResult,
     base |-> Len(results), seen |-> <<>>]

\* line 203 left out
SameAttempt(attempt) == attempt

\* line 203: attempt += 1
NextAttempt(attempt) == attempt + 1

\* line 140 with one attempt less
LoopGuardStrict(call, r) == call.attempt < r

\* line 140
LoopGuard(call, r) == call.attempt <= r

\* lines 140-185: an attempt receives a response; the call returns its result
TE_Response(resp) ==
    /\ te.status = "running"
    /\ LoopGuard(te, retries)
    /\ LET result == ResponseResult(base_url, te.spec, resp) IN
        /\ endpoint_results' = _record_endpoint_result(endpoint_results, result)
        /\ log_lines' = AttemptLog(te.log_request, log_lines,
                                   ResponseLog(log_lines, te.spec, result))
        /\ te' = [te EXCEPT !.status = "returned", !.result = result,
                            !.seen = Append(@, resp)]
    /\ UNCHANGED outside
    /\ UNCHANGED <<base_url, retries, concurrent_threads, concurrent_iterations,
                   context, lock, pc, bi, plan, gi, si, workers, queue,
                   summary, monitor_run>>

\* lines 187-203: an attempt ends in a RequestException; the loop goes on
TE_Exception(exc) ==
    /\ te.status = "running"
    /\ LoopGuard(te, retries)
    /\ LET result == ExceptionResult(base_url, te.spec, exc) IN
        /\ endpoint_results' = _record_endpoint_result(endpoint_results, result)
        /\ log_lines' = AttemptLog(te.log_request, log_lines,
                                   ExceptionLog(log_lines, te.spec))
        /\ te' = [te EXCEPT !.last_exception = TRUE, !.result = result,
                            !.attempt = NextAttempt(@), !.seen = Append(@, exc)]
    /\ UNCHANGED outside
    /\ UNCHANGED <<base_url, retries, concurrent_threads, concurrent_iterations,
                   context, lock, pc, bi, plan, gi, si, workers, queue,
                   summary, monitor_run>>

\* lines 205-207 without the raise
ExitStatusReturns(call) == "returned"

\* lines 205-207: the loop is left; the last exception is raised, if any
ExitStatus(call) == IF call.last_exception THEN "raised" ELSE "returned"

TE_Exit ==
    /\ te.status = "running"
    /\ ~LoopGuard(te, retries)
    /\ te' = [te EXCEPT !.status = ExitStatus(te)]
    /\ UNCHANGED outside
    /\ UNCHANGED <<base_url, retries, concurrent_threads, concurrent_iterations,
                   log_lines, endpoint_results, context, lock, pc, bi, plan, gi,
                   si, workers, queue, summary, monitor_run, faults, outage>>


(***************************************************************************)
(* _build_summary                                                          *)
(***************************************************************************)
RECURSIVE CountSuccess(_)
CountSuccess(results) ==
    IF results = <<>> THEN 0
    ELSE (IF Head(results).success THEN 1 ELSE 0) + CountSuccess(Tail(results))

RECURSIVE SumLatency(_)
SumLatency(results) ==
    IF results = <<>> THEN 0
    ELSE Head(results).response_time_ms + SumLatency(Tail(results))

\* line 441 with the rate cut off after two decimals
SuccessRateTruncated(success, total, up) ==
    IF total # 0 THEN (success * 10000) \div total ELSE 0

\* line 441: round((success / total) * 100, 2), in hundredths of a percent
SuccessRate(success, total, up) ==
    IF total # 0 THEN RoundNearest(success * 10000, total, up) ELSE 0

\* line 442 with the mean taken over the successful records
AverageLatencyPerSuccess(results, up) ==
    IF CountSuccess(results) # 0
    THEN RoundNearest(SumLatency(results), CountSuccess(results), up) ELSE 0

\* lines 432-436 and 442: round(sum / total, 2), in hundredths of a ms
AverageLatency(results, up) ==
    IF Len(results) # 0
    THEN RoundNearest(SumLatency(results), Len(results), up) ELSE 0

\* lines 430-443 with one count per endpoint name in place of len(...)
_build_summary_per_name(results, up) ==
    LET total == Cardinality({results[i].name : i \in 1..Len(results)})
        success == CountSuccess(results)
    IN  [kind |-> "summary",
         totalEndpoints |-> total,
         successful |-> success,
         failed |-> total - success,
         successRate |-> SuccessRate(success, total, up[1]),
         averageLatencyMs |-> AverageLatency(results, up[2])]

\* up = <<side of a tie of the rate, side of a tie of the latency>>
_build_summary(results, up) ==
    LET total == Len(results)
        success == CountSuccess(results)
    IN  [kind |-> "summary",
         totalEndpoints |-> total,
         successful |-> success,
         failed |-> total - success,
         successRate |-> SuccessRate(success, total, up[1]),
         averageLatencyMs |-> AverageLatency(results, up[2])]

\* line 414: {"error": str(exc)}, a summary without the numeric fields
ErrorSummary ==
    [kind |-> "error", totalEndpoints |-> 0, successful |-> 0, failed |-> 0,
     successRate |-> 0, averageLatencyMs |-> 0]

NoSummary ==
    [kind |-> "none", totalEndpoints |-> 0, successful |-> 0, failed |-> 0,
     successRate |-> 0, averageLatencyMs |-> 0]

NoRun == [base_url |-> "", summary |-> NoSummary, logs |-> <<>>, endpoints |-> <<>>]


(***************************************************************************)
(* run_full_test_suite, the main thread.                                   *)
(*   pc: "start" -> "bootstrap" -> "plan" -> "exec" -> "perf" -> "join"    *)
(*       -> "summary" -> "finish" -> "done", and "except" from wherever an *)
(*       exception other than RequestException is raised.                  *)
(***************************************************************************)
\* the incident budget: an incident costs one
Pay(cost) == /\ faults >= cost
             /\ faults' = faults - cost

\* lines 398-399 and 81-82: the run starts and enters bootstrap_context
RunStart ==
    /\ pc = "start"
    /\ log_lines' = log(log(log_lines, "Starting monitoring", "INFO"),
                        "Preparing context data", "INFO")
    /\ context' = EmptyContext
    /\ bi' = 1
    /\ pc' = "bootstrap"
    /\ UNCHANGED outside
    /\ UNCHANGED <<base_url, retries, concurrent_threads, concurrent_iterations,
                   endpoint_results, lock, plan, gi, si, te, workers, queue,
                   summary, monitor_run, faults, outage>>

\* a seed request that is made again, as the attempts of test_endpoint are,
\* when it brought nothing back and retries are configured
NextSeedRetrying(i, resp, r) == IF _fetch_json(resp) = JNone /\ r > 0 THEN i ELSE i + 1

\* lines 84-101 and 110-118: _fetch_json makes one request, whatever comes
\* back and whatever self.retries is; the next seed request follows
NextSeed(i, resp, r) == i + 1

\* lines 84-108: one seed request and what bootstrap_context does with it;
\* after the last one the Context is logged and the bootstrap is over
BootFetch(resp) ==
    /\ pc = "bootstrap"
    /\ bi <= Len(BootSteps)
    /\ context' = ApplySeed(context, BootSteps[bi], resp)
    /\ IF SeedRaises(BootSteps[bi], resp)
       THEN /\ pc' = "except"
            /\ UNCHANGED <<bi, log_lines>>
       ELSE /\ bi' = NextSeed(bi, resp, retries)
            /\ IF bi' > Len(BootSteps)
               THEN /\ pc' = "plan"
                    /\ log_lines' = log(log_lines, "Context prepared", "INFO")
               ELSE UNCHANGED <<pc, log_lines>>
    /\ UNCHANGED outside
    /\ UNCHANGED <<base_url, retries, concurrent_threads, concurrent_iterations,
                   endpoint_results, lock, plan, gi, si, te, workers, queue,
                   summary, monitor_run, outage>>

BootNominal == BootFetch(NominalSeed) /\ UNCHANGED faults

\* the incidents of the bootstrap of a run: a request that fails, a list of
\* one stop, a first stop without a usable name or latitude, a list of
\* something else than objects
RunSeedAnomalies ==
    { HttpError,
      HttpResponse(200, TRUE, JList(<<StopA>>)),
      HttpResponse(200, TRUE, JList(<<StopOdd, StopA>>)),
      HttpResponse(200, TRUE, JList(<<NotADict>>)) }

BootAnomaly == \E resp \in RunSeedAnomalies : BootFetch(resp) /\ Pay(1)

\* line 403: the plan is built from the Context
\* line 316 with the fallback written back to the Context
PlanContextWithFallback(ctx) ==
    [ctx EXCEPT !.taxi_coords = IF @ # NoCoords THEN @ ELSE ctx.graph_coords]

\* lines 212-368: build_test_plan reads the Context with self.context.get
\* and assigns to locals only
PlanContext(ctx) == ctx

RunBuildPlan ==
    /\ pc = "plan"
    /\ plan' = build_test_plan(context)
    /\ context' = PlanContext(context)
    /\ gi' = 1
    /\ si' = 1
    /\ pc' = "exec"
    /\ UNCHANGED outside
    /\ UNCHANGED <<base_url, retries, concurrent_threads, concurrent_iterations,
                   log_lines, endpoint_results, lock, bi, te, workers,
                   queue, summary, monitor_run, faults, outage>>

\* the position after (g, s) in the plan; past the last group when g > Len(p)
NextPosition(p, g, s) ==
    IF s < Len(p[g].specs) THEN <<g, s + 1>> ELSE <<g + 1, 1>>

\* lines 403-409: one turn of the loops over the plan.  The call that just
\* ended is dealt with (a RequestException it raised is caught and logged),
\* then the next spec is handed to test_endpoint, after the header line when
\* it is the first of its group; after the last spec the loops are left.
RunNextSpec ==
    /\ pc = "exec"
    /\ te.status # "running"
    /\ LET caught == IF te.status = "raised"
                     THEN log(log_lines, "Failed to reach " \o te.spec.name, "ERROR")
                     ELSE log_lines
           pos == IF te.status = "idle" THEN <<gi, si>> ELSE NextPosition(plan, gi, si)
       IN  /\ gi' = pos[1]
           /\ si' = pos[2]
           /\ IF pos[1] > Len(plan)
              THEN /\ pc' = "perf"
                   /\ te' = IdleCall
                   /\ log_lines' = caught
              ELSE /\ pc' = "exec"
                   /\ te' = EnterCall(plan[pos[1]].specs[pos[2]], TRUE, endpoint_results)
                   /\ log_lines' = IF pos[2] = 1
                                   THEN log(caught, "--- Testing " \o plan[pos[1]].group,
                                            "INFO")
                                   ELSE caught
    /\ outage' = FALSE
    /\ UNCHANGED outside
    /\ UNCHANGED <<base_url, retries, concurrent_threads, concurrent_iterations,
                   endpoint_results, context, lock, bi, plan, workers, queue,
                   summary, monitor_run, faults>>

\* the attempts of the main thread's call, and the incidents of the target
CallNominal ==
    /\ ~outage
    /\ TE_Response(NominalResponse)
    /\ UNCHANGED <<faults, outage>>

CallBadStatus ==
    /\ ~outage
    /\ TE_Response(BadStatusResponse)
    /\ Pay(1)
    /\ UNCHANGED outage

CallBlip ==
    /\ ~outage
    /\ TE_Exception(NominalException)
    /\ Pay(1)
    /\ UNCHANGED outage

CallOutage ==
    /\ TE_Exception(NominalException)
    /\ IF outage THEN UNCHANGED faults ELSE Pay(1)
    /\ outage' = TRUE


(***************************************************************************)
(* run_performance_checks: the pool, its work queue and workload.          *)
(*   worker pc: "idle" -> "attempt" -> "record" -> "recording"             *)
(*              -> "attempt" | "warn" | "idle", and                        *)
(*              "warn" -> "warning" -> "attempt" | "idle"                  *)
(*   when test_endpoint raised.  "recording" and "warning" are inside      *)
(*   `with self.lock`.                                                     *)
(***************************************************************************)
\* made is bookkeeping of the model: the attempts the thread has made so far
IdleWorker ==
    [pc |-> "idle", spec |-> EndpointSpec("", ""), iter |-> 0, call |-> IdleCall,
     pending |-> NoResult, outage |-> FALSE, made |-> 0]

\* the thread between two tasks
Rested(worker) == [IdleWorker EXCEPT !.made = worker.made]

\* the exchange of an attempt, added to the bookkeeping of the call
Seen(worker, exchange) ==
    [worker EXCEPT !.call.seen = Append(@, exchange), !.made = @ + 1]

OtherVarsOfWorkers ==
    <<base_url, retries, concurrent_threads, concurrent_iterations, context, pc,
      bi, plan, gi, si, te, summary, monitor_run, outage, outside>>

\* lines 374-381 and 390-392: the probes are announced, the pool is created
\* and one task per target is submitted, in the order of the targets.  The
\* threads of the pool run from then on; what they can do does not depend on
\* how far the submitting loop is, so the three submits are one step.
\* a pool that runs no more tasks than it has threads
SubmittedToWidth(targets, threads) ==
    SubSeq(targets, 1, IF threads < Len(targets) THEN threads ELSE Len(targets))

\* lines 390-392: one task is submitted per target, whatever max_workers is;
\* the pool queues those that no thread is free for
Submitted(targets, threads) == targets

RunPerfStart ==
    /\ pc = "perf"
    /\ log_lines' = log(log_lines, "Running performance probes", "INFO")
    /\ workers' = [w \in 1..concurrent_threads |-> IdleWorker]
    /\ queue' = Submitted(PerformanceTargets, concurrent_threads)
    /\ pc' = "join"
    /\ UNCHANGED outside
    /\ UNCHANGED <<base_url, retries, concurrent_threads, concurrent_iterations,
                   endpoint_results, context, lock, bi, plan, gi, si, te, summary,
                   monitor_run, faults, outage>>

\* a pool left as soon as no task waits in its queue, like shutdown(wait=False)
PoolDrained == queue = <<>>

\* line 390: the pool has no task waiting and none running
PoolIdle == queue = <<>> /\ \A w \in DOMAIN workers : workers[w].pc = "idle"

\* line 390: leaving the with block waits for every submitted task
RunJoin ==
    /\ pc = "join"
    /\ PoolIdle
    /\ pc' = "summary"
    /\ UNCHANGED outside
    /\ UNCHANGED <<base_url, retries, concurrent_threads, concurrent_iterations,
                   log_lines, endpoint_results, context, lock, bi, plan, gi, si,
                   te, workers, queue, summary, monitor_run, faults, outage>>

\* line 384 with one iteration more
IterGuardInclusive(worker, iterations) == worker.iter <= iterations

\* line 384: for _ in range(self.concurrent_iterations)
IterGuard(worker, iterations) == worker.iter < iterations

\* lines 205-207 and 387: the loop of test_endpoint is left; workload catches
\* the RequestException it raises
AfterExit(worker) ==
    IF worker.call.last_exception
    THEN [worker EXCEPT !.pc = "warn", !.call.status = "raised"]
    ELSE [worker EXCEPT !.pc = "iter", !.iter = @ + 1, !.call.status = "returned"]

\* lines 383-388: what a thread does on its own between two steps that the
\* other threads can see is done in one go with the step before it: leaving
\* the loop of test_endpoint (lines 205-206) and catching what it raises
\* (line 387), the loop test of line 384, and entering
\* test_endpoint(spec, log_request=False) at line 386.  The thread stops
\* before its next request, before it takes the lock, or when its task is over.
workload(worker, store) ==
    LET left == IF worker.pc = "attempt" /\ ~LoopGuard(worker.call, retries)
                THEN AfterExit(worker)
                ELSE worker
    IN  IF left.pc # "iter"
        THEN left
        ELSE IF IterGuard(left, concurrent_iterations)
             THEN [left EXCEPT !.pc = "attempt",
                               !.call = EnterCall(left.spec, FALSE, store),
                               !.outage = FALSE]
             ELSE Rested(left)

\* a thread of the pool takes the next task of the queue and starts it
W_Take(w) ==
    /\ workers[w].pc = "idle"
    /\ queue # <<>>
    /\ workers' = [workers EXCEPT ![w] =
                      workload([Rested(workers[w]) EXCEPT !.pc = "iter",
                                                          !.spec = Head(queue)],
                               endpoint_results)]
    /\ queue' = Tail(queue)
    /\ UNCHANGED <<log_lines, endpoint_results, lock, faults>>
    /\ UNCHANGED OtherVarsOfWorkers

\* lines 140-174 and 187-199: the request of an attempt and the result built
WorkerResult(worker, exchange) ==
    IF exchange.kind = "response"
    THEN ResponseResult(base_url, worker.spec, exchange)
    ELSE ExceptionResult(base_url, worker.spec, exchange)

W_Request(w, exchange) ==
    /\ workers[w].pc = "attempt"
    /\ LoopGuard(workers[w].call, retries)
    /\ workers' = [workers EXCEPT ![w] =
          [Seen(@, exchange) EXCEPT !.pc = "record",
                                    !.pending = WorkerResult(workers[w], exchange)]]
    /\ UNCHANGED <<log_lines, endpoint_results, lock, queue>>
    /\ UNCHANGED outside
    /\ UNCHANGED <<base_url, retries, concurrent_threads, concurrent_iterations,
                   context, pc, bi, plan, gi, si, te, summary, monitor_run,
                   outage>>

W_Nominal(w) ==
    /\ ~workers[w].outage
    /\ W_Request(w, NominalResponse)
    /\ UNCHANGED faults

W_BadStatus(w) ==
    /\ ~workers[w].outage
    /\ W_Request(w, BadStatusResponse)
    /\ Pay(1)

W_Blip(w) ==
    /\ ~workers[w].outage
    /\ W_Request(w, NominalException)
    /\ Pay(1)

\* the endpoint is unreachable from this attempt to the end of the call
W_Outage(w) ==
    /\ workers[w].pc = "attempt"
    /\ LoopGuard(workers[w].call, retries)
    /\ workers' = [workers EXCEPT ![w] =
          [Seen(@, NominalException) EXCEPT
              !.pc = "record", !.outage = TRUE,
              !.pending = WorkerResult(workers[w], NominalException)]]
    /\ IF workers[w].outage THEN UNCHANGED faults ELSE Pay(1)
    /\ UNCHANGED <<log_lines, endpoint_results, lock, queue>>
    /\ UNCHANGED OtherVarsOfWorkers

\* a lock that is kept when the with block is left
StillHeld(holder) == holder

\* lines 69-70 and 74-75: leaving the with block releases the lock
Released(holder) == 0

\* a lock that does not exclude
LockIgnored(holder) == TRUE

\* lines 69 and 74: with self.lock is entered when no thread holds the lock
LockFree(holder) == holder = 0

\* line 74: with self.lock
W_RecordAcquire(w) ==
    /\ workers[w].pc = "record"
    /\ LockFree(lock)
    /\ lock' = w
    /\ workers' = [workers EXCEPT ![w].pc = "recording"]
    /\ UNCHANGED <<log_lines, endpoint_results, queue, faults>>
    /\ UNCHANGED OtherVarsOfWorkers

\* lines 75, 185 and 203: the append under the lock; then the call returns
\* the result of a response, or counts the attempt after a RequestException
AfterRecord(worker) ==
    IF worker.pending.error = "absent"
    THEN [worker EXCEPT !.pc = "iter", !.iter = @ + 1,
                        !.call.status = "returned", !.call.result = worker.pending]
    ELSE [worker EXCEPT !.pc = "attempt",
                        !.call.last_exception = TRUE, !.call.result = worker.pending,
                        !.call.attempt = NextAttempt(@)]

W_RecordAppend(w) ==
    /\ workers[w].pc = "recording"
    /\ endpoint_results' = _record_endpoint_result(endpoint_results, workers[w].pending)
    /\ lock' = Released(lock)
    /\ workers' = [workers EXCEPT ![w] =
                      workload(AfterRecord(workers[w]), endpoint_results')]
    /\ UNCHANGED <<log_lines, queue, faults>>
    /\ UNCHANGED OtherVarsOfWorkers

\* lines 388 and 69: self.log(..., level="WARN") takes the lock
W_WarnAcquire(w) ==
    /\ workers[w].pc = "warn"
    /\ LockFree(lock)
    /\ lock' = w
    /\ workers' = [workers EXCEPT ![w].pc = "warning"]
    /\ UNCHANGED <<log_lines, endpoint_results, queue, faults>>
    /\ UNCHANGED OtherVarsOfWorkers

\* line 70
ProbeErrorLog(lines, spec) ==
    log(lines, "Performance probe error for " \o spec.name, "WARN")

W_WarnAppend(w) ==
    /\ workers[w].pc = "warning"
    /\ log_lines' = ProbeErrorLog(log_lines, workers[w].spec)
    /\ lock' = Released(lock)
    /\ workers' = [workers EXCEPT ![w] =
                      workload([@ EXCEPT !.pc = "iter", !.iter = @ + 1], endpoint_results)]
    /\ UNCHANGED <<endpoint_results, queue, faults>>
    /\ UNCHANGED OtherVarsOfWorkers

\* the steps of a thread of the pool but its requests
WorkerStep(w) ==
    \/ W_Take(w)
    \/ W_RecordAcquire(w)
    \/ W_RecordAppend(w)
    \/ W_WarnAcquire(w)
    \/ W_WarnAppend(w)

(***************************************************************************)
(* The end of run_full_test_suite.                                         *)
(***************************************************************************)
\* line 411
RunBuildSummary ==
    /\ pc = "summary"
    /\ \E up \in TieSides \X TieSides :
          summary' = _build_summary(endpoint_results, up)
    /\ pc' = "finish"
    /\ UNCHANGED outside
    /\ UNCHANGED <<base_url, retries, concurrent_threads, concurrent_iterations,
                   log_lines, endpoint_results, context, lock, bi, plan, gi, si,
                   te, workers, queue, monitor_run, faults, outage>>

\* lines 412-414: except Exception
RunExcept ==
    /\ pc = "except"
    /\ log_lines' = log(log_lines, "Unexpected error during monitoring", "ERROR")
    /\ summary' = ErrorSummary
    /\ pc' = "finish"
    /\ UNCHANGED outside
    /\ UNCHANGED <<base_url, retries, concurrent_threads, concurrent_iterations,
                   endpoint_results, context, lock, bi, plan, gi, si, te, workers,
                   queue, monitor_run, faults, outage>>

\* lines 416-427 returning no records after a run-level error
MonitorRunBareOnError(url, s, logs, endpoints) ==
    [base_url |-> url, summary |-> s, logs |-> logs,
     endpoints |-> IF s.kind = "error" THEN <<>> ELSE endpoints]

\* lines 416-427: the MonitorRun returned, with copies of the two lists
MonitorRun(url, s, logs, endpoints) ==
    [base_url |-> url, summary |-> s, logs |-> logs, endpoints |-> endpoints]

RunFinish ==
    /\ pc = "finish"
    /\ log_lines' = log(log_lines, "Monitoring completed", "INFO")
    /\ monitor_run' = MonitorRun(base_url, summary, log_lines', endpoint_results)
    /\ pc' = "done"
    /\ UNCHANGED outside
    /\ UNCHANGED <<base_url, retries, concurrent_threads, concurrent_iterations,
                   endpoint_results, context, lock, bi, plan, gi, si, te, workers,
                   queue, summary, faults, outage>>

(***************************************************************************)
(* TransportSystemMonitor.__init__                                         *)
(***************************************************************************)
\* lines 48-50 without the clamp: the argument as given
Unclamped(a, b) == b

\* lines 48-50: max(0, retries), max(1, concurrent_threads), max(1, ...)
Max(a, b) == IF a >= b THEN a ELSE b

DefaultTarget == "http://localhost:8080"

\* line 45: base_url.rstrip("/"), on the URLs that the model uses
rstrip(url) ==
    CASE url = "http://b:8080/" -> "http://b:8080"
      [] url = "http://c:8080//" -> "http://c:8080"
      [] OTHER -> url

\* lines 45-52: the settings of the monitor
Configured(url, r, threads, iterations) ==
    /\ base_url = rstrip(url)
    /\ retries = Max(0, r)
    /\ concurrent_threads = Max(1, threads)
    /\ concurrent_iterations = Max(1, iterations)

\* lines 45-58: the monitor after construction
Constructed(url, r, threads, iterations) ==
    /\ Configured(url, r, threads, iterations)
    /\ log_lines = <<>>
    /\ endpoint_results = <<>>
    /\ context = EmptyContext
    /\ lock = 0

\* the parts of the state that belong to no object: nothing is running
NothingRunning ==
    /\ bi = 1
    /\ plan = <<>>
    /\ gi = 1
    /\ si = 1
    /\ te = IdleCall
    /\ workers = <<>>
    /\ queue = <<>>
    /\ summary = NoSummary
    /\ monitor_run = NoRun
    /\ outage = FALSE

\* main has not been entered, nor the enhanced monitor built
NoArgs == [targets |-> <<>>, fail_threshold |-> 0]
NoStats == [total |-> 0, passed |-> 0, failed |-> 0, warnings |-> 0]

OutsideIdle ==
    /\ args = NoArgs
    /\ run_results = <<>>
    /\ exit_code = -1
    /\ test_stats = NoStats
    /\ status_line = ""

(***************************************************************************)
(* Spec: one run of run_full_test_suite, without retries or with           *)
(* MaxRetries of them, against a target that causes at most MaxFaults      *)
(* incidents, with a pool of one thread running each probe once.           *)
(***************************************************************************)
Init ==
    /\ \E r \in {0, MaxRetries} : Constructed(DefaultTarget, r, 1, 1)
    /\ NothingRunning
    /\ OutsideIdle
    /\ pc = "start"
    /\ faults = MaxFaults

Next ==
    \/ RunStart
    \/ BootNominal
    \/ BootAnomaly
    \/ RunBuildPlan
    \/ RunNextSpec
    \/ CallNominal
    \/ CallBadStatus
    \/ CallOutage
    \/ TE_Exit
    \/ RunPerfStart
    \/ RunJoin
    \/ \E w \in DOMAIN workers : WorkerStep(w)
    \/ \E w \in DOMAIN workers : W_Nominal(w)
    \/ \E w \in DOMAIN workers : W_BadStatus(w)
    \/ \E w \in DOMAIN workers : W_Outage(w)
    \/ RunBuildSummary
    \/ RunExcept
    \/ RunFinish

Spec == Init /\ [][Next]_vars


(***************************************************************************)
(* SpecExec: test_endpoint called once, with any spec and any exchanges,   *)
(* on a monitor whose store holds what earlier calls left, and             *)
(* _build_summary called on the store.  A RequestException that            *)
(* test_endpoint raises reaches the caller: te.status = "raised".          *)
(***************************************************************************)
\* an EndpointSpec whose expected_status is not the default
SpecExpecting(name, path, status) ==
    [EndpointSpec(name, path) EXCEPT !.expected_status = status]

HarnessSpecs ==
    { PerformanceTargets[1],
      SpecPost("Monitor health check", "/api/monitor/health/check", NoParams),
      SpecExpecting("No content", "/api/monitor/alerts", 204) }

PriorStores ==
    { <<>>, <<ResponseResult(DefaultTarget, PerformanceTargets[2], NominalResponse)>> }

InitExec ==
    /\ \E r \in -1..MaxRetries : Configured(DefaultTarget, r, 1, 1)
    /\ log_lines = <<>>
    /\ endpoint_results \in PriorStores
    /\ context = EmptyContext
    /\ lock = 0
    /\ NothingRunning
    /\ OutsideIdle
    /\ pc = "harness"
    /\ faults = 0

HarnessCall ==
    /\ pc = "harness"
    /\ te.status = "idle"
    /\ summary = NoSummary
    /\ \E spec \in HarnessSpecs, log_request \in BOOLEAN :
          te' = EnterCall(spec, log_request, endpoint_results)
    /\ UNCHANGED outside
    /\ UNCHANGED <<base_url, retries, concurrent_threads, concurrent_iterations,
                   log_lines, endpoint_results, context, lock, pc, bi, plan, gi,
                   si, workers, queue, summary, monitor_run, faults, outage>>

ExecResponse ==
    /\ pc = "harness"
    /\ \E resp \in Responses : TE_Response(resp)
    /\ UNCHANGED <<faults, outage>>

ExecException ==
    /\ pc = "harness"
    /\ \E exc \in RequestExceptions : TE_Exception(exc)
    /\ UNCHANGED <<faults, outage>>

HarnessSummary ==
    /\ pc = "harness"
    /\ te.status # "running"
    /\ summary = NoSummary
    /\ \E up \in TieSides \X TieSides :
          summary' = _build_summary(endpoint_results, up)
    /\ UNCHANGED outside
    /\ UNCHANGED <<base_url, retries, concurrent_threads, concurrent_iterations,
                   log_lines, endpoint_results, context, lock, pc, bi, plan, gi,
                   si, te, workers, queue, monitor_run, faults, outage>>

NextExec ==
    \/ HarnessCall
    \/ ExecResponse
    \/ ExecException
    \/ TE_Exit
    \/ HarnessSummary

SpecExec == InitExec /\ [][NextExec]_vars

\* the call of the main thread is over
CallOver == te.status \in {"returned", "raised"}

\* the record the i-th attempt of the main thread's call left in the store
AttemptRecord(i) == endpoint_results[te.base + i]

\* the records the main thread's call has appended so far
Appended == Len(endpoint_results) - te.base

GotStatus(x, status) == x.kind = "response" /\ x.status = status

(***************************************************************************)
(* C1: when every attempt of a call receives a response whose status is    *)
(* not the expected one, the call appends retries + 1 records and returns  *)
(* a result with success = false.                                          *)
(***************************************************************************)
C1_BadStatusUsesAllAttempts ==
    ( /\ CallOver
      /\ \A i \in 1..Len(te.seen) :
            te.seen[i].kind = "response" /\ te.seen[i].status # te.spec.expected_status )
    => /\ te.status = "returned"
       /\ Appended = retries + 1
       /\ ~te.result.success

(***************************************************************************)
(* C2: when the first attempt of a call receives a response with the       *)
(* expected status, the call appends exactly one record to the store and   *)
(* returns a result with success = true, whatever retries is.              *)
(***************************************************************************)
C2_FirstMatchReturnsAtOnce ==
    ( /\ Len(te.seen) >= 1
      /\ GotStatus(te.seen[1], te.spec.expected_status) )
    => /\ te.status = "returned"
       /\ Appended = 1
       /\ te.result.success
       /\ AttemptRecord(1) = te.result

C2_Witness ==
    /\ te.status = "returned"
    /\ retries >= 1
    /\ te.base >= 1
    /\ te.spec.expected_status = 204
    /\ GotStatus(te.seen[1], 204)
    /\ Appended = 1

(***************************************************************************)
(* C3: test_endpoint never raises to its caller; also when every one of    *)
(* the retries + 1 attempts fails at the transport level it returns.       *)
(***************************************************************************)
C3_NeverRaises == te.status # "raised"

(***************************************************************************)
(* C3, amended: when the last attempt that test_endpoint makes receives a  *)
(* response it returns the record of that attempt; when all retries + 1    *)
(* attempts end in a RequestException it has recorded every one of them    *)
(* and raises the last to its caller, and it raises in no other case.      *)
(***************************************************************************)
C3_RaisesWhenExhausted ==
    /\ te.status = "raised" =>
          /\ Len(te.seen) = retries + 1
          /\ \A i \in 1..Len(te.seen) : te.seen[i].kind = "error"
          /\ Appended = retries + 1
          /\ \A i \in 1..Appended : AttemptRecord(i).status_code = 0
    /\ te.status = "returned" =>
          /\ Len(te.seen) >= 1
          /\ Len(te.seen) <= retries + 1
          /\ te.seen[Len(te.seen)].kind = "response"
          /\ Appended = Len(te.seen)
          /\ te.result = AttemptRecord(Len(te.seen))
          /\ te.result.status_code = te.seen[Len(te.seen)].status

C3_Witness ==
    /\ te.status = "raised"
    /\ retries >= 1
    /\ Appended = retries + 1

(***************************************************************************)
(* C5: every record of the store has success = (status_code =              *)
(* expected_status of its spec); a record with status_code 0 has success   *)
(* false; whether the payload was JSON or text does not change success.    *)
(***************************************************************************)
C5_SuccessIsStatusMatch ==
    \A i \in 1..Len(te.seen) :
        i <= Appended =>
            LET rec == AttemptRecord(i)
                x == te.seen[i]
            IN  /\ rec.status_code = x.status
                /\ rec.success = (rec.status_code = te.spec.expected_status)
                /\ rec.status_code = 0 => ~rec.success
                /\ rec.success = GotStatus(x, te.spec.expected_status)

C5_Witness ==
    /\ CallOver
    /\ Appended = 2
    /\ AttemptRecord(1).status_code = 0
    /\ AttemptRecord(2).data = "text"
    /\ AttemptRecord(2).success
    /\ te.spec.expected_status = 204

\* the successful records of the store, counted
Successes == Cardinality({i \in 1..Len(endpoint_results) : endpoint_results[i].success})

Abs(x) == IF x >= 0 THEN x ELSE -x

(***************************************************************************)
(* C8: the successRate of a summary is 100 * successes / total of the      *)
(* store it was built from, and 0 when the store is empty.                 *)
(***************************************************************************)
C8_RateIsExact ==
    summary.kind = "summary" =>
        IF Len(endpoint_results) = 0
        THEN summary.successRate = 0
        ELSE summary.successRate * Len(endpoint_results) = 10000 * Successes

(***************************************************************************)
(* C8, amended: the successRate of a summary is 100 * successes / total    *)
(* rounded to two decimal places (so within 0.005 of it), and 0 when the   *)
(* store is empty.                                                         *)
(***************************************************************************)
C8_RateIsRounded ==
    summary.kind = "summary" =>
        /\ summary.totalEndpoints = Len(endpoint_results)
        /\ summary.successful = Successes
        /\ IF Len(endpoint_results) = 0
           THEN summary.successRate = 0
           ELSE 2 * Abs(summary.successRate * Len(endpoint_results) - 10000 * Successes)
                    <= Len(endpoint_results)

C8_Witness ==
    /\ summary.kind = "summary"
    /\ Len(endpoint_results) = 3
    /\ Successes = 2
    /\ summary.successRate = 6667

(***************************************************************************)
(* C9: the averageLatencyMs of a summary is the arithmetic mean of the     *)
(* response_time_ms of the records of the store (10, 20 and 30 give 20),   *)
(* and 0 when the store is empty.                                          *)
(***************************************************************************)
C9_MeanIsExact ==
    summary.kind = "summary" =>
        IF Len(endpoint_results) = 0
        THEN summary.averageLatencyMs = 0
        ELSE summary.averageLatencyMs * Len(endpoint_results) = SumLatency(endpoint_results)

(***************************************************************************)
(* C9, amended: the averageLatencyMs of a summary is the arithmetic mean   *)
(* of the response_time_ms of the records of the store rounded to two      *)
(* decimal places (10, 20 and 30 give 20), and 0 when the store is empty.  *)
(***************************************************************************)
C9_MeanIsRounded ==
    summary.kind = "summary" =>
        IF Len(endpoint_results) = 0
        THEN summary.averageLatencyMs = 0
        ELSE 2 * Abs(summary.averageLatencyMs * Len(endpoint_results)
                      - SumLatency(endpoint_results))
                 <= Len(endpoint_results)

C9_Witness ==
    /\ summary.kind = "summary"
    /\ Len(endpoint_results) = 3
    /\ endpoint_results[1].response_time_ms = 1000
    /\ endpoint_results[2].response_time_ms = 2000
    /\ endpoint_results[3].response_time_ms = 3000
    /\ summary.averageLatencyMs = 2000


(***************************************************************************)
(* C4: an attempt of test_endpoint that ends in a transport failure        *)
(* appends one record with status_code 0, success false and an error       *)
(* message; when every attempt of a call fails so, the call leaves         *)
(* retries + 1 such records and run_full_test_suite goes on with the next  *)
(* spec of the plan.                                                       *)
(***************************************************************************)
FailureRecord(rec) ==
    /\ rec.status_code = 0
    /\ ~rec.success
    /\ rec.error # "absent"

TransportFailuresRecorded ==
    /\ \A i \in 1..Len(te.seen) :
          te.seen[i].kind = "error" => i <= Appended /\ FailureRecord(AttemptRecord(i))
    /\ te.status = "raised" =>
          /\ Appended = retries + 1
          /\ \A i \in 1..Appended : FailureRecord(AttemptRecord(i))

RunGoesOnAfterRaise ==
    (pc = "exec" /\ te.status = "raised") =>
        LET pos == NextPosition(plan, gi, si) IN
            IF pos[1] <= Len(plan)
            THEN /\ pc' = "exec"
                 /\ te'.status = "running"
                 /\ te'.spec = plan[pos[1]].specs[pos[2]]
                 /\ endpoint_results' = endpoint_results
            ELSE pc' = "perf"

C4_TransportFailureRecordedRunGoesOn ==
    /\ []TransportFailuresRecorded
    /\ [][RunGoesOnAfterRaise]_vars

C4_Witness ==
    /\ retries >= 1
    /\ pc = "exec"
    /\ te.status = "running"
    /\ te.spec.name = "Graph stops"
    /\ Len(endpoint_results) = retries + 1
    /\ \A i \in 1..Len(endpoint_results) :
          FailureRecord(endpoint_results[i]) /\ endpoint_results[i].name = "Graph metrics"
    /\ \E i \in 1..Len(log_lines) :
          log_lines[i] = LogEntry("Failed to reach Graph metrics", "ERROR")


(***************************************************************************)
(* run_monitors and main.  A fail threshold is held in thousandths of a    *)
(* percent.  The run of a target is one step here: what it leaves behind   *)
(* is the summary of a store, or the error summary.                        *)
(***************************************************************************)
MaxTargets == 2
MaxStore == 3

OkRecord(url) == ResponseResult(url, PerformanceTargets[1], NominalResponse)
FailedRecord(url) == ResponseResult(url, PerformanceTargets[1], BadStatusResponse)

RECURSIVE StoresOfLength(_, _)
StoresOfLength(url, n) ==
    IF n = 0 THEN {<<>>}
    ELSE UNION {{Append(st, OkRecord(url)), Append(st, FailedRecord(url))} :
                    st \in StoresOfLength(url, n - 1)}

\* the stores a run can end with, as far as the rate goes
RunStores(url) == UNION {StoresOfLength(url, n) : n \in 1..MaxStore}

TargetNames == <<"http://a:8080", "http://b:8080/", "http://c:8080//">>

\* --target given zero to MaxTargets times
TargetLists == {SubSeq(TargetNames, 1, n) : n \in 0..MaxTargets}

\* --fail-threshold, a float: -10, 0, 33.333, 50, the default 80, 100
FailThresholds == {-10000, 0, 33333, 50000, 80000, 100000}

\* the targets as given, without the default one
TargetsAsGiven(a) == a.targets

\* line 505: args.targets or ["http://localhost:8080"]
TargetsOf(a) == IF a.targets # <<>> THEN a.targets ELSE <<DefaultTarget>>

\* line 541 with the run that has no successRate left out of the minimum
RateOfErrorAsFull(run) ==
    IF run.summary.kind = "summary" THEN run.summary.successRate ELSE 10000

\* line 541: result.get("summary", {}).get("successRate", 0.0)
RateOf(run) == IF run.summary.kind = "summary" THEN run.summary.successRate ELSE 0

Min(a, b) == IF a <= b THEN a ELSE b

RECURSIVE BestRate(_)
BestRate(runs) ==
    IF Len(runs) = 1 THEN RateOf(runs[1])
    ELSE Max(RateOf(Head(runs)), BestRate(Tail(runs)))

\* line 541: min(... for result in results)
RECURSIVE WorstRate(_)
WorstRate(runs) ==
    IF Len(runs) = 1 THEN RateOf(runs[1])
    ELSE Min(RateOf(Head(runs)), WorstRate(Tail(runs)))

\* lines 537-550
ExitCode(runs, fail_threshold) ==
    IF runs = <<>> THEN 1
    ELSE IF WorstRate(runs) * 10 < fail_threshold THEN 1
    ELSE 0

InitMain ==
    /\ Constructed("", 0, 1, 1)
    /\ NothingRunning
    /\ pc = "main"
    /\ faults = 0
    /\ \E t \in TargetLists, f \in FailThresholds :
          args = [targets |-> t, fail_threshold |-> f]
    /\ run_results = <<>>
    /\ exit_code = -1
    /\ test_stats = NoStats
    /\ status_line = ""

\* the store of a monitor that is the store of the monitor before it
SharedEndpointResults(previous) == previous

\* line 56: self.endpoint_results = [], whatever the monitor before it holds
NewEndpointResults(previous) == <<>>

\* line 55: self.log_lines = []
NewLogLines(previous) == <<>>

\* the targets taken from the last to the first
NextTargetFromLast(targets, done) == targets[Len(targets) - done]

\* line 509: for index, target in enumerate(targets)
NextTarget(targets, done) == targets[done + 1]

\* lines 509-520: the next target gets a monitor of its own and is run; the
\* run leaves its records in the store of this monitor
MainRunTarget ==
    /\ pc = "main"
    /\ Len(run_results) < Len(TargetsOf(args))
    /\ LET target == NextTarget(TargetsOf(args), Len(run_results)) IN
        /\ base_url' = rstrip(target)
        /\ \/ \E store \in RunStores(base_url'), up \in TieSides \X TieSides :
                /\ endpoint_results' = NewEndpointResults(endpoint_results) \o store
                /\ summary' = _build_summary(endpoint_results', up)
           \/ /\ endpoint_results' = NewEndpointResults(endpoint_results)
              /\ summary' = ErrorSummary
        /\ log_lines' = log(NewLogLines(log_lines), "Monitoring completed", "INFO")
        /\ monitor_run' = MonitorRun(base_url', summary', log_lines', endpoint_results')
        /\ run_results' = Append(run_results, monitor_run')
    /\ UNCHANGED <<retries, concurrent_threads, concurrent_iterations, context, lock,
                   pc, bi, plan, gi, si, te, workers, queue, faults, outage>>
    /\ UNCHANGED <<args, exit_code, test_stats, status_line>>

\* lines 533-550: run_monitors has returned; main returns the exit code
MainExit ==
    /\ pc = "main"
    /\ Len(run_results) = Len(TargetsOf(args))
    /\ exit_code' = ExitCode(run_results, args.fail_threshold)
    /\ pc' = "exited"
    /\ UNCHANGED <<base_url, retries, concurrent_threads, concurrent_iterations,
                   log_lines, endpoint_results, context, lock, bi, plan, gi, si,
                   te, workers, queue, summary, monitor_run, faults, outage>>
    /\ UNCHANGED <<args, run_results, test_stats, status_line>>

NextMain ==
    \/ MainRunTarget
    \/ MainExit

SpecMain == InitMain /\ [][NextMain]_vars

(***************************************************************************)
(* C6: main returns 1 when the least successRate over the summaries of all *)
(* MonitorRuns is below fail_threshold and 0 otherwise; one target below   *)
(* the threshold is enough, whatever the rates of the others.              *)
(***************************************************************************)
HasRate(run) == run.summary.kind = "summary"

C6_ExitCodeFromWorstRate ==
    (pc = "exited" /\ \A i \in 1..Len(run_results) : HasRate(run_results[i])) =>
        /\ Len(run_results) >= 1
        /\ exit_code \in {0, 1}
        /\ exit_code = 1 <=>
              \E i \in 1..Len(run_results) :
                  run_results[i].summary.successRate * 10 < args.fail_threshold

C6_Witness ==
    /\ pc = "exited"
    /\ Len(run_results) = 2
    /\ run_results[1].summary.successRate = 10000
    /\ run_results[2].summary.successRate = 3333
    /\ HasRate(run_results[2])
    /\ args.fail_threshold = 50000
    /\ exit_code = 1


(***************************************************************************)
(* The report of the EnhancedTransportSystemMonitor: test_stats as         *)
(* _log_endpoint_result counts them, and the SYSTEM STATUS line of         *)
(* generate_comprehensive_report ("" when the report has none).            *)
(***************************************************************************)
MaxTests == 20

\* lines 529-553; data_error: the data of a successful result has an "error" key
_log_endpoint_result(stats, success, data_error) ==
    IF success
    THEN [stats EXCEPT !.total = @ + 1, !.passed = @ + 1,
                       !.warnings = IF data_error THEN @ + 1 ELSE @]
    ELSE [stats EXCEPT !.total = @ + 1, !.failed = @ + 1]

\* lines 723-751 with the boundaries left out of each band
SystemStatusStrict(stats) ==
    LET total == stats.total
        passed == stats.passed
    IN  IF total > 0
        THEN IF passed * 100 > 95 * total THEN "EXCELLENT"
             ELSE IF passed * 100 > 85 * total THEN "GOOD"
             ELSE IF passed * 100 > 70 * total THEN "ACCEPTABLE WITH CONCERNS"
             ELSE IF passed * 100 > 50 * total THEN "DEGRADED"
             ELSE "CRITICAL"
        ELSE ""

\* lines 723-751: success_rate = (passed / total) * 100 against the thresholds
SystemStatus(stats) ==
    LET total == stats.total
        passed == stats.passed
    IN  IF total > 0
        THEN IF passed * 100 >= 95 * total THEN "EXCELLENT"
             ELSE IF passed * 100 >= 85 * total THEN "GOOD"
             ELSE IF passed * 100 >= 70 * total THEN "ACCEPTABLE WITH CONCERNS"
             ELSE IF passed * 100 >= 50 * total THEN "DEGRADED"
             ELSE "CRITICAL"
        ELSE ""

InitRating ==
    /\ Constructed("", 0, 1, 1)
    /\ NothingRunning
    /\ OutsideIdle
    /\ pc = "enhanced"
    /\ faults = 0

\* a test of the suite is over and its result is logged
LogEndpointResult ==
    /\ pc = "enhanced"
    /\ test_stats.total < MaxTests
    /\ \E success \in BOOLEAN, data_error \in BOOLEAN :
          test_stats' = _log_endpoint_result(test_stats, success, data_error)
    /\ UNCHANGED inside
    /\ UNCHANGED <<args, run_results, exit_code, status_line>>

\* lines 705-756, at the end of the suite or when it is interrupted
GenerateReport ==
    /\ pc = "enhanced"
    /\ status_line' = SystemStatus(test_stats)
    /\ pc' = "reported"
    /\ UNCHANGED <<base_url, retries, concurrent_threads, concurrent_iterations,
                   log_lines, endpoint_results, context, lock, bi, plan, gi, si,
                   te, workers, queue, summary, monitor_run, faults, outage>>
    /\ UNCHANGED <<args, run_results, exit_code, test_stats>>

NextRating ==
    \/ LogEndpointResult
    \/ GenerateReport

SpecRating == InitRating /\ [][NextRating]_vars

(***************************************************************************)
(* C7: the rating of a run is EXCELLENT from a success rate of 90 %, GOOD  *)
(* from 75 %, NEEDS ATTENTION from 50 % and CRITICAL ISSUES below; exactly *)
(* 90.0 % is EXCELLENT.                                                    *)
(***************************************************************************)
C7_RatingThresholds ==
    (pc = "reported" /\ test_stats.total > 0) =>
        status_line =
            IF test_stats.passed * 100 >= 90 * test_stats.total THEN "EXCELLENT"
            ELSE IF test_stats.passed * 100 >= 75 * test_stats.total THEN "GOOD"
            ELSE IF test_stats.passed * 100 >= 50 * test_stats.total THEN "NEEDS ATTENTION"
            ELSE "CRITICAL ISSUES"

(***************************************************************************)
(* C7, amended: the report rates a run EXCELLENT from a success rate of    *)
(* 95 %, GOOD from 85 %, ACCEPTABLE WITH CONCERNS from 70 %, DEGRADED from *)
(* 50 % and CRITICAL below, each boundary belonging to the higher rating   *)
(* (exactly 95.0 % is EXCELLENT, 90.0 % is GOOD); a run without any test   *)
(* gets no rating.                                                         *)
(***************************************************************************)
C7_ReportThresholds ==
    pc = "reported" =>
        LET total == test_stats.total
            passed == test_stats.passed
        IN  /\ total = 0 <=> status_line = ""
            /\ status_line = "EXCELLENT" <=> (total > 0 /\ passed * 100 >= 95 * total)
            /\ status_line = "GOOD" <=>
                  (passed * 100 < 95 * total /\ passed * 100 >= 85 * total)
            /\ status_line = "ACCEPTABLE WITH CONCERNS" <=>
                  (passed * 100 < 85 * total /\ passed * 100 >= 70 * total)
            /\ status_line = "DEGRADED" <=>
                  (passed * 100 < 70 * total /\ passed * 100 >= 50 * total)
            /\ status_line = "CRITICAL" <=> (total > 0 /\ passed * 100 < 50 * total)

C7_Witness ==
    /\ pc = "reported"
    /\ test_stats.total = 20
    /\ test_stats.passed = 19
    /\ status_line = "EXCELLENT"


(***************************************************************************)
(* SpecPlan: bootstrap_context with any answer to each seed request, and   *)
(* build_test_plan on the Context it leaves.                               *)
(***************************************************************************)
InitPlan ==
    /\ Constructed(DefaultTarget, 0, 1, 1)
    /\ NothingRunning
    /\ OutsideIdle
    /\ pc = "start"
    /\ faults = 0

PlanBootFetch ==
    /\ \E resp \in SeedResponses : BootFetch(resp)
    /\ UNCHANGED faults

NextPlan ==
    \/ RunStart
    \/ PlanBootFetch
    \/ RunBuildPlan
    \/ RunExcept
    \/ RunFinish

SpecPlan == InitPlan /\ [][NextPlan]_vars

\* the plan holds a spec of that name
HasSpec(name) ==
    \E g \in 1..Len(plan) : \E i \in 1..Len(plan[g].specs) : plan[g].specs[i].name = name

\* a sampled name is present: the Context holds one and it is not empty
NamePresent(v) == v # PyNone /\ v # PyStr("")

\* a coordinate sample is present: the Context holds a pair of two numbers
CoordsPresent(c) == c # NoCoords /\ IsNumber(c[1]) /\ IsNumber(c[2])

\* the sample the taxi spec is built from: the taxi one when the Context
\* holds it, else the graph one
TaxiSample(ctx) == IF ctx.taxi_coords # NoCoords THEN ctx.taxi_coords ELSE ctx.graph_coords

(***************************************************************************)
(* C10: the plan holds a parameterized spec (stop detail, journey, nearest *)
(* stop) exactly when every Context value the spec depends on is present;  *)
(* with the primary and secondary name of a mode absent the plan has no    *)
(* journey spec of that mode and still has its metrics spec.               *)
(***************************************************************************)
C10_ParameterizedSpecsFollowContext ==
    pc = "exec" =>
        /\ HasSpec("Graph stop detail") <=> NamePresent(context.graph_stop)
        /\ HasSpec("Graph nearest stop") <=> CoordsPresent(context.graph_coords)
        /\ HasSpec("Graph journey") <=>
              (NamePresent(context.graph_stop) /\ NamePresent(context.graph_stop_alt))
        /\ HasSpec("GA journey") <=>
              (NamePresent(context.ga_stop) /\ NamePresent(context.ga_stop_alt))
        /\ HasSpec("MyCiti journey") <=>
              (NamePresent(context.myciti_stop) /\ NamePresent(context.myciti_stop_alt))
        /\ HasSpec("Train stop detail") <=> NamePresent(context.train_stop)
        /\ HasSpec("Train journey") <=> NamePresent(context.train_stop)
        /\ HasSpec("Taxi nearest stops") <=> CoordsPresent(TaxiSample(context))
        /\ HasSpec("Graph metrics")
        /\ HasSpec("GA metrics")
        /\ HasSpec("MyCiti metrics")
        /\ HasSpec("Train metrics")
        /\ HasSpec("Taxi metrics")

C10_Witness ==
    /\ pc = "exec"
    /\ context.ga_stop = PyNone
    /\ context.ga_stop_alt = PyNone
    /\ ~HasSpec("GA journey")
    /\ HasSpec("GA metrics")
    /\ HasSpec("MyCiti journey")
    /\ context.graph_stop_alt = PyNone
    /\ HasSpec("Graph stop detail")
    /\ ~HasSpec("Graph journey")


\* the names of the groups of the plan, and of the specs of a group, in order
GroupNames == [g \in 1..Len(plan) |-> plan[g].group]
SpecNames(g) == [i \in 1..Len(plan[g].specs) |-> plan[g].specs[i].name]

\* names holds every name of expected, in the order of expected
RECURSIVE HoldsInOrder(_, _)
HoldsInOrder(names, expected) ==
    IF expected = <<>> THEN TRUE
    ELSE IF names = <<>> THEN FALSE
    ELSE IF Head(names) = Head(expected)
         THEN HoldsInOrder(Tail(names), Tail(expected))
         ELSE HoldsInOrder(Tail(names), expected)

(***************************************************************************)
(* C11: for every Context, the empty one included, the plan is the seven   *)
(* groups Graph, GA Bus, MyCiti Bus, Train, Taxi, Admin, Monitor in that   *)
(* order, each group holds all its static specs, and the Monitor group     *)
(* holds its 14 specs.                                                     *)
(***************************************************************************)
C11_SevenGroupsWithStaticSpecs ==
    pc = "exec" =>
        /\ GroupNames = <<"Graph", "GA Bus", "MyCiti Bus", "Train", "Taxi", "Admin",
                          "Monitor">>
        /\ HoldsInOrder(SpecNames(1), <<"Graph metrics", "Graph stops">>)
        /\ HoldsInOrder(SpecNames(2), <<"GA metrics", "GA stops", "GA trips">>)
        /\ HoldsInOrder(SpecNames(3), <<"MyCiti metrics", "MyCiti stops", "MyCiti trips">>)
        /\ HoldsInOrder(SpecNames(4), <<"Train metrics", "Train stops">>)
        /\ HoldsInOrder(SpecNames(5),
                        <<"Taxi metrics", "Taxi all stops", "Taxi all trips">>)
        /\ SpecNames(6) = <<"Admin system metrics", "Admin files in use",
                            "Admin recent calls">>
        /\ SpecNames(7) =
              <<"Monitor health", "Monitor summary", "Monitor ready", "Monitor stats",
                "Monitor alerts", "Monitor alerts all", "Monitor performance",
                "Monitor health check",
                "Monitor graph train ready", "Monitor graph train status",
                "Monitor graph bus ready", "Monitor graph bus status",
                "Monitor graph taxi ready", "Monitor graph taxi status">>
        /\ Len(plan[7].specs) = 14

C11_Witness ==
    /\ pc = "exec"
    /\ context = EmptyContext
    /\ Len(plan) = 7
    /\ Len(plan[1].specs) = 2
    /\ Len(plan[4].specs) = 2
    /\ Len(plan[7].specs) = 14


(***************************************************************************)
(* SpecProber: run_performance_checks on a fresh monitor, with a pool of   *)
(* one to MaxThreads threads and one to MaxIterations iterations, at most  *)
(* MaxLoad iterations running over all threads, without retries or with    *)
(* MaxRetries of them, against a target that causes at most MaxFaults      *)
(* incidents; then the summary and the end of the run.                     *)
(***************************************************************************)
MaxThreads == 2
MaxIterations == 2
MaxLoad == 4

InitProber ==
    /\ \E r \in {0, MaxRetries}, threads \in 1..MaxThreads, iterations \in 1..MaxIterations :
          /\ threads * iterations <= MaxLoad
          /\ Constructed(DefaultTarget, r, threads, iterations)
    /\ NothingRunning
    /\ OutsideIdle
    /\ pc = "perf"
    /\ faults = MaxFaults

NextProber ==
    \/ RunPerfStart
    \/ RunJoin
    \/ \E w \in DOMAIN workers : WorkerStep(w)
    \/ \E w \in DOMAIN workers : W_Nominal(w)
    \/ \E w \in DOMAIN workers : W_BadStatus(w)
    \/ \E w \in DOMAIN workers : W_Blip(w)
    \/ \E w \in DOMAIN workers : W_Outage(w)
    \/ RunBuildSummary
    \/ RunFinish

SpecProber == InitProber /\ [][NextProber]_vars

\* the records of the store for a probed endpoint: those of a response, and
\* those of a transport failure
ProbeResponses(name) ==
    Cardinality({i \in 1..Len(endpoint_results) :
                    endpoint_results[i].name = name /\ endpoint_results[i].error = "absent"})
ProbeFailures(name) ==
    Cardinality({i \in 1..Len(endpoint_results) :
                    endpoint_results[i].name = name /\ endpoint_results[i].error # "absent"})

\* run_performance_checks has returned
ProberOver == pc \in {"summary", "finish", "done"}

(***************************************************************************)
(* C12: whatever the threads, iterations, retries, answers of the target   *)
(* and interleaving, run_performance_checks appends exactly 3 x            *)
(* concurrent_iterations records to the store.                             *)
(***************************************************************************)
C12_ProberRecordCount ==
    ProberOver => Len(endpoint_results) = 3 * concurrent_iterations

(***************************************************************************)
(* C12, amended: run_performance_checks calls test_endpoint 3 x            *)
(* concurrent_iterations times, concurrent_iterations times per probed     *)
(* endpoint, and the store gets one record per attempt of these calls: a   *)
(* call leaves the record of its response after the records of at most     *)
(* retries failed attempts, or retries + 1 records of failed attempts.     *)
(* The phase so appends between 3 x concurrent_iterations and 3 x          *)
(* concurrent_iterations x (retries + 1) records, and exactly 3 x          *)
(* concurrent_iterations when retries = 0.                                 *)
(***************************************************************************)
C12_ProberRecordPerAttempt ==
    ProberOver =>
        /\ \A t \in 1..Len(PerformanceTargets) :
              LET name == PerformanceTargets[t].name
                  raised == concurrent_iterations - ProbeResponses(name)
              IN  /\ raised >= 0
                  /\ ProbeFailures(name) >= raised * (retries + 1)
                  /\ ProbeFailures(name) <= raised * (retries + 1)
                                            + ProbeResponses(name) * retries
        /\ Len(endpoint_results) >= 3 * concurrent_iterations
        /\ Len(endpoint_results) <= 3 * concurrent_iterations * (retries + 1)
        /\ retries = 0 => Len(endpoint_results) = 3 * concurrent_iterations
        /\ \A i \in 1..Len(endpoint_results) :
              \E t \in 1..Len(PerformanceTargets) :
                  endpoint_results[i].name = PerformanceTargets[t].name

C12_Witness ==
    /\ ProberOver
    /\ concurrent_threads = 2
    /\ concurrent_iterations = 2
    /\ retries >= 1
    /\ Len(endpoint_results) = 3 * concurrent_iterations + 1

\* bootstrap_context has ended in an exception at the seed request of step bi
BootstrapRaised == pc = "except" /\ bi \in 1..Len(BootSteps)

(***************************************************************************)
(* C13: bootstrap_context never raises, whatever the seed endpoints        *)
(* answer: it goes on with the remaining seed endpoints and completes.     *)
(***************************************************************************)
C13_BootstrapNeverRaises == ~BootstrapRaised

\* the MonitorRun of the i-th target holds what the monitor of that target
\* collected and nothing else: its records carry the base_url of the target,
\* as the monitor keeps it, and its log starts with this run
RunOfItsTarget(i) ==
    LET run == run_results[i] IN
    /\ run.base_url = rstrip(TargetsOf(args)[i])
    /\ \A k \in 1..Len(run.endpoints) : run.endpoints[k].base_url = run.base_url
    /\ run.logs = log(<<>>, "Monitoring completed", "INFO")
    /\ run.summary.kind = "summary" => run.summary.totalEndpoints = Len(run.endpoints)

TargetsIsolated == \A i \in 1..Len(run_results) : RunOfItsTarget(i)

\* a step leaves the MonitorRuns returned so far as they are
EarlierRunsKept ==
    /\ Len(run_results') >= Len(run_results)
    /\ \A i \in 1..Len(run_results) : run_results'[i] = run_results[i]

(***************************************************************************)
(* C14: every target is run by a monitor of its own: every record of its   *)
(* MonitorRun carries the base_url of that target, its store and log hold  *)
(* nothing of the targets before it, and running a later target leaves     *)
(* the MonitorRuns of the earlier targets unchanged.                       *)
(***************************************************************************)
C14_TargetsRunInIsolation == []TargetsIsolated /\ [][EarlierRunsKept]_vars

C14_Witness ==
    /\ pc = "exited"
    /\ Len(run_results) = 2
    /\ run_results[1].base_url # run_results[2].base_url
    /\ Len(run_results[1].endpoints) >= 1
    /\ Len(run_results[2].endpoints) >= 1
    /\ run_results[2].base_url # args.targets[2]

\* main has returned and no --target was given
ExitedWithoutTargets == pc = "exited" /\ args.targets = <<>>

(***************************************************************************)
(* C15: when no target results exist, as when zero targets were            *)
(* configured, main returns the exit code 1 whatever the fail_threshold.   *)
(***************************************************************************)
C15_ZeroTargetsExitOne == ExitedWithoutTargets => exit_code = 1

(***************************************************************************)
(* C15, amended: main returns 1 on an empty list of results whatever the   *)
(* fail_threshold, but run_monitors never returns an empty list: with zero *)
(* targets configured it runs the default target, and the exit code is 1   *)
(* when the success rate of that run (0 for an error summary) is below     *)
(* fail_threshold and 0 otherwise.                                         *)
(***************************************************************************)
C15_DefaultTargetDecidesExit ==
    /\ \A f \in FailThresholds : ExitCode(<<>>, f) = 1
    /\ pc = "exited" => Len(run_results) >= 1
    /\ ExitedWithoutTargets =>
          /\ Len(run_results) = 1
          /\ run_results[1].base_url = DefaultTarget
          /\ exit_code = IF RateOf(run_results[1]) * 10 < args.fail_threshold
                         THEN 1 ELSE 0

C15_Witness ==
    /\ ExitedWithoutTargets
    /\ args.fail_threshold > 0
    /\ exit_code = 0

\* the health and readiness endpoints of the plan
HealthEndpoints ==
    {"Monitor health", "Monitor ready"}
    \cup {"Monitor graph " \o GraphNames[g] \o " ready" : g \in 1..Len(GraphNames)}

\* the record of a health or readiness endpoint that answered 503
Degraded(record) ==
    /\ record.error = "absent"
    /\ record.name \in HealthEndpoints
    /\ record.status_code = 503

(***************************************************************************)
(* C16: a health or readiness endpoint of the plan (Monitor health,        *)
(* Monitor ready, Monitor graph <g> ready) that answers 503 is not a       *)
(* failure: its record is successful; the record of any other response is  *)
(* successful exactly when the status is the expected one, 200 for every   *)
(* spec of the plan and of the prober.                                     *)
(***************************************************************************)
C16_DegradedHealthIsValid ==
    \A i \in 1..Len(endpoint_results) :
        LET record == endpoint_results[i] IN
        record.error = "absent" =>
            (record.success <=> (record.status_code = 200 \/ Degraded(record)))

(***************************************************************************)
(* SpecInterrupt: the whole run of a monitor without retries, that the     *)
(* operator may interrupt.  A KeyboardInterrupt raised in the try block of *)
(* run_full_test_suite is no Exception: neither line 408 nor line 412      *)
(* catches it, nor do run_monitors and main, so it ends the process before *)
(* lines 416-427 build a MonitorRun.                                       *)
(***************************************************************************)
\* the call of test_endpoint that the main thread is in, if any, is left by
\* the exception that passes through it
Unwound(call) == IF call.status = "running" THEN [call EXCEPT !.status = "aborted"] ELSE call

RunInterrupt ==
    /\ pc \in {"bootstrap", "plan", "exec", "perf", "join", "summary"}
    /\ pc' = "interrupted"
    /\ te' = Unwound(te)
    /\ UNCHANGED outside
    /\ UNCHANGED <<base_url, retries, concurrent_threads, concurrent_iterations,
                   log_lines, endpoint_results, context, lock, bi, plan, gi, si,
                   workers, queue, summary, monitor_run, faults, outage>>

InitInterrupt ==
    /\ Constructed(DefaultTarget, 0, 1, 1)
    /\ NothingRunning
    /\ OutsideIdle
    /\ pc = "start"
    /\ faults = MaxFaults

NextInterrupt ==
    \/ Next
    \/ RunInterrupt

SpecInterrupt == InitInterrupt /\ [][NextInterrupt]_vars

(***************************************************************************)
(* C17: when the run is interrupted after at least one EndpointResult was  *)
(* recorded, a partial report is still produced: a MonitorRun exists that  *)
(* holds the results collected so far.                                     *)
(***************************************************************************)
C17_InterruptKeepsResults ==
    (pc = "interrupted" /\ Len(endpoint_results) >= 1) =>
        /\ monitor_run # NoRun
        /\ monitor_run.endpoints = endpoint_results

\* the seed request of this step was answered by resp, and the bootstrap
\* goes on
SeedStep(step, resp) ==
    /\ pc = "bootstrap"
    /\ bi <= Len(BootSteps)
    /\ BootSteps[bi] = step
    /\ bi' = bi + 1
    /\ context' = ApplySeed(context, step, resp)

\* the stops (JSON objects) that resp lists, none when it lists anything else
StopsIn(resp) ==
    LET v == _fetch_json(resp) IN
    IF v.j = "list" /\ \A i \in 1..Len(v.items) : v.items[i].dict
    THEN v.items ELSE <<>>

\* what the bootstrap keeps of a list of at least two stops, and of a list of
\* exactly one: the sample that each seed request is made for
SamplesStored(resp) ==
    LET stops == StopsIn(resp) IN
    /\ Len(stops) >= 2 =>
          /\ SeedStep("graph", resp) =>
                /\ context'.graph_stop = stops[1].name
                /\ context'.graph_stop_alt = stops[2].name
          /\ SeedStep("ga", resp) => context'.ga_stop = stops[1].name
          /\ SeedStep("ga_alt", resp) => context'.ga_stop_alt = stops[2].name
          /\ SeedStep("myciti", resp) => context'.myciti_stop = stops[1].name
          /\ SeedStep("myciti_alt", resp) => context'.myciti_stop_alt = stops[2].name
    /\ Len(stops) = 1 =>
          /\ SeedStep("graph", resp) =>
                /\ context'.graph_stop = stops[1].name
                /\ context'.graph_stop_alt = PyNone
          /\ SeedStep("ga", resp) => context'.ga_stop = stops[1].name
          /\ SeedStep("ga_alt", resp) => context'.ga_stop_alt = PyNone
          /\ SeedStep("myciti", resp) => context'.myciti_stop = stops[1].name
          /\ SeedStep("myciti_alt", resp) => context'.myciti_stop_alt = PyNone

\* group g of the plan holds the journey spec of that name, from the primary
\* to the secondary sample
HasJourney(g, name, origin, destination, primary, secondary) ==
    \E i \in 1..Len(plan[g].specs) :
        LET spec == plan[g].specs[i] IN
        /\ spec.name = name
        /\ \E k \in 1..Len(spec.params) : spec.params[k] = Param(origin, primary)
        /\ \E k \in 1..Len(spec.params) : spec.params[k] = Param(destination, secondary)

JourneysFollowSamples ==
    plan # <<>> =>
        /\ (NamePresent(context.graph_stop) /\ NamePresent(context.graph_stop_alt)) =>
              HasJourney(1, "Graph journey", "from", "to",
                         context.graph_stop, context.graph_stop_alt)
        /\ (NamePresent(context.ga_stop) /\ NamePresent(context.ga_stop_alt)) =>
              HasJourney(2, "GA journey", "source", "target",
                         context.ga_stop, context.ga_stop_alt)
        /\ (NamePresent(context.myciti_stop) /\ NamePresent(context.myciti_stop_alt)) =>
              HasJourney(3, "MyCiti journey", "source", "target",
                         context.myciti_stop, context.myciti_stop_alt)

\* the records that the sequential phase stored for the specs of group g
GroupRecords(g) ==
    {i \in 1..Len(endpoint_results) :
        \E k \in 1..Len(plan[g].specs) : endpoint_results[i].name = plan[g].specs[k].name}

\* every record of group g is a response with the expected status
AnsweredAsExpected(g) ==
    \A i \in GroupRecords(g) :
        /\ endpoint_results[i].error = "absent"
        /\ \E k \in 1..Len(plan[g].specs) :
              /\ endpoint_results[i].name = plan[g].specs[k].name
              /\ endpoint_results[i].status_code = plan[g].specs[k].expected_status

GroupSucceeds(g) ==
    AnsweredAsExpected(g) => \A i \in GroupRecords(g) : endpoint_results[i].success

\* of the group that is being tested, and of every group once all were tested
GroupsAnsweredSucceed ==
    /\ (pc = "exec" /\ gi <= Len(plan)) => GroupSucceeds(gi)
    /\ pc = "perf" => \A g \in 1..Len(plan) : GroupSucceeds(g)

(***************************************************************************)
(* C18: of a seed answer that lists at least two stops, the bootstrap      *)
(* stores the name of stop[0] as the primary and the name of stop[1] as    *)
(* the secondary sample of the mode, and of a list of exactly one stop no  *)
(* secondary sample; the plan then holds the journey spec of the mode from *)
(* the primary to the secondary name; and the records of a group whose     *)
(* specs were all answered with their expected status are all successful.  *)
(***************************************************************************)
C18_TwoStopsGiveJourney ==
    /\ [][pc = "bootstrap" => \A resp \in SeedResponses : SamplesStored(resp)]_vars
    /\ [](pc \in {"exec", "perf"} => (JourneysFollowSamples /\ GroupsAnsweredSucceed))

C18_Witness ==
    /\ pc = "perf"
    /\ context.ga_stop = StopA.name
    /\ context.ga_stop_alt = StopB.name
    /\ HasJourney(2, "GA journey", "source", "target", StopA.name, StopB.name)
    /\ \E i \in GroupRecords(2) : endpoint_results[i].name = "GA journey"
    /\ AnsweredAsExpected(2)
    /\ \A i \in GroupRecords(2) : endpoint_results[i].success
    /\ context.graph_stop = StopA.name
    /\ context.graph_stop_alt = PyNone
    /\ ~HasSpec("Graph journey")

\* the attempts that the call of the harness has made so far
Attempts == Len(te.seen)

(***************************************************************************)
(* C19: every attempt of test_endpoint appends exactly one EndpointResult  *)
(* to the store, so that a call has added as many records as it has made   *)
(* attempts, and it appends one log line per attempt when log_request is   *)
(* true and none when it is false, as in the calls of the prober.          *)
(***************************************************************************)
C19_OneRecordPerAttempt ==
    (pc = "harness" /\ te.status # "idle") =>
        /\ Appended = Attempts
        /\ \A i \in 1..Attempts :
              /\ AttemptRecord(i).name = te.spec.name
              /\ (AttemptRecord(i).error = "absent") <=> (te.seen[i].kind = "response")
        /\ Len(log_lines) = IF te.log_request THEN Attempts ELSE 0

C19_Witness ==
    /\ pc = "harness"
    /\ CallOver
    /\ ~te.log_request
    /\ Attempts = 2
    /\ Appended = 2
    /\ te.base = 1
    /\ log_lines = <<>>

\* the names of the specs of a plan in the order of their declaration
RECURSIVE PlanOrder(_)
PlanOrder(p) ==
    IF p = <<>> THEN <<>>
    ELSE [i \in 1..Len(Head(p).specs) |-> Head(p).specs[i].name] \o PlanOrder(Tail(p))

\* the place of a record in that order, 0 for a record of no spec of the plan
PlaceOf(order, record) ==
    IF \E k \in 1..Len(order) : order[k] = record.name
    THEN CHOOSE k \in 1..Len(order) : order[k] = record.name
    ELSE 0

\* the place of the spec that the sequential phase has reached
PlaceReached(order) ==
    IF te.status = "idle" THEN 0
    ELSE CHOOSE k \in 1..Len(order) : order[k] = te.spec.name

\* the sequential phase is running, or it has just ended
Sequential == pc = "exec" \/ pc = "perf"

\* every record belongs to a spec up to the one reached, the first record to
\* the first spec, each further one to the spec of the record before it or to
\* the spec declared next, and the last one to the last spec that was called
StoreInPlanOrder ==
    LET order == PlanOrder(plan)
        place == [i \in 1..Len(endpoint_results) |-> PlaceOf(order, endpoint_results[i])]
        reached == IF pc = "perf" THEN Len(order) ELSE PlaceReached(order)
        over == IF pc = "perf" THEN Len(order) ELSE reached - 1
    IN  /\ \A i \in 1..Len(place) : place[i] \in 1..reached
        /\ Len(place) > 0 => place[1] = 1
        /\ \A i \in 1..(Len(place) - 1) : place[i + 1] \in {place[i], place[i] + 1}
        /\ over > 0 => (Len(place) > 0 /\ place[Len(place)] >= over)

\* no thread but the main one, which is in at most one call of test_endpoint
OneCallAtATime == workers = <<>> /\ queue = <<>> /\ lock = 0

(***************************************************************************)
(* C20: in the sequential phase of run_full_test_suite at most one         *)
(* endpoint call is in flight, and the records of the store are in the     *)
(* order in which the plan declares the specs, group by group and spec by  *)
(* spec: the attempts of a spec are consecutive and come before any record *)
(* of the next spec, and no spec is passed over.                           *)
(***************************************************************************)
C20_SequentialInPlanOrder == Sequential => (OneCallAtATime /\ StoreInPlanOrder)

C20_Witness ==
    /\ pc = "exec"
    /\ retries >= 1
    /\ \E i \in 1..(Len(endpoint_results) - 2) :
          /\ endpoint_results[i].name = endpoint_results[i + 1].name
          /\ endpoint_results[i + 2].name # endpoint_results[i].name
          /\ endpoint_results[i].name = plan[1].specs[2].name
          /\ endpoint_results[i + 2].name = plan[1].specs[3].name

\* bootstrap_context has not returned yet
Bootstrapping == pc \in {"start", "bootstrap"}

\* nothing of the plan exists or was executed, and the store is empty
NothingExecuted ==
    /\ plan = <<>>
    /\ te = IdleCall
    /\ workers = <<>>
    /\ endpoint_results = <<>>

\* a step of the bootstrap is one seed request: the next step is the next
\* seed request, the end of the bootstrap after the last one, or the end of
\* the run's try block when the answer made bootstrap_context raise
OneRequestPerSeed ==
    pc = "bootstrap" =>
        /\ bi \in 1..Len(BootSteps)
        /\ \/ pc' = "bootstrap" /\ bi' = bi + 1 /\ bi' <= Len(BootSteps)
           \/ pc' = "plan" /\ bi = Len(BootSteps) /\ bi' = bi + 1
           \/ pc' = "except" /\ bi' = bi
        /\ endpoint_results' = endpoint_results

(***************************************************************************)
(* C21: the bootstrap is one pass that is over before the plan is built:   *)
(* no spec of the plan is executed before bootstrap_context has ended,     *)
(* every seed request is made once and never again, also when retries > 0, *)
(* and the bootstrap appends nothing to the store.                         *)
(***************************************************************************)
C21_BootstrapOnePassFirst ==
    /\ [](Bootstrapping => NothingExecuted)
    /\ [](plan # <<>> => bi = Len(BootSteps) + 1)
    /\ [][OneRequestPerSeed]_vars

C21_Witness ==
    /\ pc = "exec"
    /\ retries >= 1
    /\ context.graph_stop = PyNone
    /\ context.train_stop = StopA.name
    /\ bi = Len(BootSteps) + 1
    /\ endpoint_results = <<>>

\* a coordinate sample of the Context is absent or a pair of two numbers
NumericOrAbsent(c) == c = NoCoords \/ (Len(c) = 2 /\ IsNumber(c[1]) /\ IsNumber(c[2]))

(***************************************************************************)
(* C22: after bootstrap_context every coordinate sample that the Context   *)
(* holds, graph_coords and taxi_coords, is a pair of a numeric latitude    *)
(* and a numeric longitude: a pair with a missing or non-numeric field is  *)
(* not kept.                                                               *)
(***************************************************************************)
C22_CoordinateSamplesNumeric ==
    pc \in {"plan", "exec"} =>
        /\ NumericOrAbsent(context.graph_coords)
        /\ NumericOrAbsent(context.taxi_coords)

(***************************************************************************)
(* SpecFailure: the run of a monitor against a target that answers every   *)
(* request as expected, in which something unexpected may go wrong in the  *)
(* main thread: an Exception other than RequestException raised inside the *)
(* try block of lines 401-411, during the bootstrap, the construction of   *)
(* the plan, the execution of a spec, the start of the prober or the       *)
(* aggregation.  Line 412 catches it.                                      *)
(***************************************************************************)
RunRaise ==
    /\ pc \in {"bootstrap", "plan", "exec", "perf", "summary"}
    /\ pc' = "except"
    /\ te' = Unwound(te)
    /\ UNCHANGED outside
    /\ UNCHANGED <<base_url, retries, concurrent_threads, concurrent_iterations,
                   log_lines, endpoint_results, context, lock, bi, plan, gi, si,
                   workers, queue, summary, monitor_run, faults, outage>>

InitFailure ==
    /\ Constructed(DefaultTarget, 0, 1, 1)
    /\ NothingRunning
    /\ OutsideIdle
    /\ pc = "start"
    /\ faults = 0

NextFailure ==
    \/ RunStart
    \/ BootNominal
    \/ RunBuildPlan
    \/ RunNextSpec
    \/ CallNominal
    \/ RunPerfStart
    \/ RunJoin
    \/ \E w \in DOMAIN workers : WorkerStep(w)
    \/ \E w \in DOMAIN workers : W_Nominal(w)
    \/ RunBuildSummary
    \/ RunRaise
    \/ RunExcept
    \/ RunFinish

SpecFailure == InitFailure /\ [][NextFailure]_vars

\* the log holds the line of line 413
ErrorLogged(lines) ==
    \E i \in 1..Len(lines) :
        lines[i] = LogEntry("Unexpected error during monitoring", "ERROR")

\* the failure is caught: the summary becomes the error entry, and the store
\* and what the log held stay
FailureCaught ==
    pc = "except" =>
        /\ pc' = "finish"
        /\ summary' = ErrorSummary
        /\ endpoint_results' = endpoint_results
        /\ SubSeq(log_lines', 1, Len(log_lines)) = log_lines
        /\ ErrorLogged(log_lines')

\* the run has returned its MonitorRun: it holds the whole store and the
\* whole log, and the error entry as summary exactly when a failure was caught
RunReturned ==
    pc = "done" =>
        /\ monitor_run.base_url = base_url
        /\ monitor_run.endpoints = endpoint_results
        /\ monitor_run.logs = log_lines
        /\ monitor_run.summary = summary
        /\ (summary = ErrorSummary) <=> ErrorLogged(log_lines)
        /\ summary.kind \in {"error", "summary"}

(***************************************************************************)
(* C23: an unexpected failure inside run_full_test_suite, during the       *)
(* bootstrap, the construction of the plan, the execution or the           *)
(* aggregation, does not abort the run: the run still returns a MonitorRun *)
(* whose summary is the run-level error entry and whose logs and endpoints *)
(* hold everything collected up to the failure.                            *)
(***************************************************************************)
C23_FailureGivesErrorRun == []RunReturned /\ [][FailureCaught]_vars

C23_Witness ==
    /\ pc = "done"
    /\ monitor_run.summary = ErrorSummary
    /\ Len(monitor_run.endpoints) = 2
    /\ gi = 1
    /\ ErrorLogged(monitor_run.logs)

\* a step of the call that issues an attempt after an attempt that failed
ReAttempt ==
    /\ te.status = "running"
    /\ te'.spec = te.spec
    /\ Len(te.seen) >= 1
    /\ Len(te'.seen) = Len(te.seen) + 1

\* the call is in the sleep between two attempts; test_endpoint has no such
\* position: no line of lines 135-207 sleeps
InBackoff == te.status = "backoff"

(***************************************************************************)
(* C24: between an unsuccessful attempt of test_endpoint and the attempt   *)
(* that follows it the call waits, a sleep of the backoff interval: no     *)
(* attempt is issued right after a failed one.                             *)
(***************************************************************************)
C24_BackoffBeforeReAttempt == [][ReAttempt => InBackoff]_vars

\* the log holds a WARN line about the probe of that name
ProbeWarned(name) ==
    \E k \in 1..Len(log_lines) :
        log_lines[k] = LogEntry("Performance probe error for " \o name, "WARN")

(***************************************************************************)
(* C25: every failed probe of the prober phase, a transport failure or a   *)
(* status that is not the expected one, is recorded in the store as any    *)
(* failed attempt is, and is logged at WARN severity, never at ERROR.      *)
(***************************************************************************)
C25_FailedProbesWarned ==
    ProberOver =>
        /\ \A i \in 1..Len(endpoint_results) :
              ~endpoint_results[i].success => ProbeWarned(endpoint_results[i].name)
        /\ \A k \in 1..Len(log_lines) : log_lines[k].level # "ERROR"

\* the store before a step is the beginning of the store after it
StoreOnlyGrows ==
    /\ Len(endpoint_results') >= Len(endpoint_results)
    /\ SubSeq(endpoint_results', 1, Len(endpoint_results)) = endpoint_results

(***************************************************************************)
(* C26: the store of a run is append-only: over every step of the run,     *)
(* the attempts and retries of the sequential phase, the threads of the    *)
(* prober, the aggregation and the construction of the MonitorRun, the     *)
(* store before the step is a prefix of the store after it, so that no     *)
(* record is removed, moved or changed and the record of a failed attempt  *)
(* stays when the attempt is made again.                                   *)
(***************************************************************************)
C26_StoreAppendOnly == [][StoreOnlyGrows]_vars

C26_Witness ==
    /\ pc = "done"
    /\ retries >= 1
    /\ monitor_run.endpoints = endpoint_results
    /\ \E i \in 1..(Len(endpoint_results) - 1) :
          /\ endpoint_results[i].name = endpoint_results[i + 1].name
          /\ endpoint_results[i].error # "absent"
          /\ endpoint_results[i + 1].error # "absent"
          /\ endpoint_results[i].name = PerformanceTargets[1].name

\* the threads that are inside `with self.lock`, appending to the store or
\* to the log
InsideLock == {w \in DOMAIN workers : workers[w].pc \in {"recording", "warning"}}

\* the threads whose attempt is made and not yet appended
ToRecord == {w \in DOMAIN workers : workers[w].pc \in {"record", "recording"}}

RECURSIVE AttemptsMade(_)
AttemptsMade(ws) == IF ws = <<>> THEN 0 ELSE Head(ws).made + AttemptsMade(Tail(ws))

\* the WARN lines that the threads of the pool have written
ProbeWarnings ==
    Cardinality({k \in 1..Len(log_lines) : log_lines[k].level = "WARN"})

(***************************************************************************)
(* C27: every append to the store and to the log is made by the thread     *)
(* that holds the single lock of the run: never are two threads inside an  *)
(* append, and under every interleaving of the threads of the prober no    *)
(* append is lost: the store holds one record per attempt made.            *)
(***************************************************************************)
C27_AppendsUnderTheLock ==
    /\ Cardinality(InsideLock) <= 1
    /\ \A w \in DOMAIN workers : w \in InsideLock <=> lock = w
    /\ lock \in {0} \cup DOMAIN workers
    /\ Len(endpoint_results) = AttemptsMade(workers) - Cardinality(ToRecord)
    /\ ProberOver => Len(endpoint_results) = AttemptsMade(workers)

C27_Witness ==
    /\ pc = "join"
    /\ Len(workers) = 2
    /\ workers[1].pc = "recording"
    /\ workers[2].pc = "record"
    /\ lock = 1
    /\ workers[1].made + workers[2].made = 3
    /\ Len(endpoint_results) = 1

\* the journey specs of the plan, with the parameters that name the origin
\* and the destination (lines 240-244, 262-267, 285-290, 303-307)
JourneyEnds ==
    {<<"Graph journey", "from", "to">>, <<"GA journey", "source", "target">>,
     <<"MyCiti journey", "source", "target">>, <<"Train journey", "from", "to">>}

\* the value of parameter key of spec
ParamValue(spec, key) ==
    spec.params[CHOOSE k \in 1..Len(spec.params) : spec.params[k].k = key].v

(***************************************************************************)
(* C29: every journey spec of the plan (Graph, GA, MyCiti, Train) goes     *)
(* from one named entity to a different one: the value of its origin       *)
(* parameter differs from the value of its destination parameter.          *)
(***************************************************************************)
C29_JourneyEndsDistinct ==
    \A g \in 1..Len(plan) : \A i \in 1..Len(plan[g].specs) :
        \A j \in JourneyEnds :
            plan[g].specs[i].name = j[1] =>
                ParamValue(plan[g].specs[i], j[2]) # ParamValue(plan[g].specs[i], j[3])

\* the records of the store for a probed endpoint
ProbeRecords(name) == ProbeResponses(name) + ProbeFailures(name)

(***************************************************************************)
(* C28: with retries = 0, whatever the width of the pool (a width below    *)
(* the number of probed endpoints included) and the interleaving of its    *)
(* threads, each of the 3 probed endpoints is executed concurrent_iterations *)
(* times by the prober and has that many records in the store when the     *)
(* prober is over, never more before; the store holds no other record.     *)
(***************************************************************************)
C28_EachProbeRunsIterationsTimes ==
    (retries = 0 /\ pc \notin {"perf"}) =>
        /\ \A t \in 1..Len(PerformanceTargets) :
              /\ ProbeRecords(PerformanceTargets[t].name) <= concurrent_iterations
              /\ ProberOver =>
                    ProbeRecords(PerformanceTargets[t].name) = concurrent_iterations
        /\ \A i \in 1..Len(endpoint_results) :
              \E t \in 1..Len(PerformanceTargets) :
                  endpoint_results[i].name = PerformanceTargets[t].name
        /\ ProberOver => Len(endpoint_results) = 3 * concurrent_iterations

\* a pool of fewer threads than probed endpoints is over, and the records of
\* one endpoint are not all next to each other in the store
C28_Witness ==
    /\ ProberOver
    /\ retries = 0
    /\ concurrent_threads = 2
    /\ concurrent_iterations = 2
    /\ Len(endpoint_results) = 6
    /\ endpoint_results[1].name = endpoint_results[3].name
    /\ endpoint_results[1].name # endpoint_results[2].name

\* the first k attempts of the main thread's call ended in a RequestException
\* and attempt k + 1 received a response
RecoveredAfter(k) ==
    /\ Attempts = k + 1
    /\ \A i \in 1..k : te.seen[i].kind = "error"
    /\ te.seen[k + 1].kind = "response"

\* test_endpoint has returned the record of the response of attempt k + 1,
\* after the records of k failed attempts
ReturnedAfter(k) ==
    /\ k <= retries
    /\ te.status = "returned"
    /\ Appended = k + 1
    /\ \A i \in 1..k : AttemptRecord(i).status_code = 0 /\ ~AttemptRecord(i).success
    /\ te.result = AttemptRecord(k + 1)
    /\ te.result.status_code = te.seen[k + 1].status
    /\ te.result.success = (te.seen[k + 1].status = te.spec.expected_status)

\* a call that has returned makes no further attempt
StopsAtResponse ==
    (te.status = "returned" /\ te'.status = "returned") =>
        /\ te' = te
        /\ endpoint_results' = endpoint_results

(***************************************************************************)
(* C30: when the first k attempts of a call of test_endpoint end in        *)
(* transport failures and attempt k + 1 receives a response, then k is at  *)
(* most retries, the call stops at that attempt and returns the result of  *)
(* that response, with success = (status = expected_status), and it has    *)
(* appended k + 1 records, the first k with status_code 0.                 *)
(***************************************************************************)
C30_RecoveryReturnsTheResponse ==
    /\ [](pc = "harness" => \A k \in 0..(MaxRetries + 1) : RecoveredAfter(k) => ReturnedAfter(k))
    /\ [][pc = "harness" => StopsAtResponse]_vars

\* a failed attempt, then a response of another status than expected
C30_Witness ==
    /\ pc = "harness"
    /\ retries >= 1
    /\ RecoveredAfter(retries)
    /\ te.status = "returned"
    /\ ~te.result.success
    /\ te.result.status_code # 0
    /\ te.base >= 1

\* bootstrap_context has returned
BootstrapOver == pc \notin {"start", "bootstrap"}

\* a step taken after bootstrap_context has returned leaves the Context as
\* it is
ContextKept == BootstrapOver => context' = context

(***************************************************************************)
(* C31: only bootstrap_context writes the Context: no step of              *)
(* build_test_plan, test_endpoint, run_performance_checks or               *)
(* _build_summary changes it, so that the Context at the end of the run is *)
(* the Context at the end of bootstrap.                                    *)
(***************************************************************************)
C31_ContextOnlyFromBootstrap == [][ContextKept]_vars

\* a run is over with a Context that holds samples, records of the
\* sequential phase and of the prober, and a summary
C31_Witness ==
    /\ pc = "done"
    /\ Truthy(context.graph_stop)
    /\ context.graph_coords # NoCoords
    /\ context.taxi_coords = NoCoords
    /\ summary.kind = "summary"
    /\ \E i \in 1..Len(endpoint_results) :
          endpoint_results[i].name = "Performance snapshot"

\* _build_summary has run
Aggregated == summary.kind = "summary"

(***************************************************************************)
(* C32: _build_summary reads the store when every task of the prober has   *)
(* finished: from the return of run_performance_checks on no thread of the *)
(* pool is running and none has a record or a log line to append, and the  *)
(* totalEndpoints of the summary is the length of the store from then to   *)
(* the end of the run, the records of the prober included, so that no      *)
(* record is appended after the summary is computed.                       *)
(***************************************************************************)
C32_SummaryAfterThePool ==
    /\ ProberOver =>
          /\ PoolIdle
          /\ lock = 0
          /\ Len(endpoint_results) = AttemptsMade(workers)
    /\ Aggregated =>
          /\ ProberOver
          /\ summary.totalEndpoints = Len(endpoint_results)
          /\ summary.totalEndpoints >= 3 * concurrent_iterations

\* the summary of a pool of two threads whose calls were retried
C32_Witness ==
    /\ pc = "done"
    /\ Aggregated
    /\ concurrent_threads = 2
    /\ concurrent_iterations = 2
    /\ summary.totalEndpoints = 7
    /\ Len(monitor_run.endpoints) = 7

\* each request of the call returns or fails within its timeout, and the
\* thread goes on: the call of the main thread is not left half-way
SpecExecFair == SpecExec /\ WF_vars(ExecResponse \/ ExecException \/ TE_Exit)

\* a failed attempt increases the attempt counter by one
FailedAttemptCounts ==
    (te.status = "running" /\ te'.status = "running" /\ Len(te'.seen) = Len(te.seen) + 1)
        => /\ te.seen' [Len(te.seen) + 1].kind = "error"
           /\ te'.attempt = te.attempt + 1
           /\ te.attempt <= retries

\* the call makes no attempt once its counter exceeds retries
AttemptsBounded ==
    /\ Attempts <= retries + 1
    /\ te.attempt <= retries + 1
    /\ Appended <= retries + 1

(***************************************************************************)
(* C33: every call of test_endpoint terminates, after at most retries + 1  *)
(* attempts, when each of its requests returns or fails within its         *)
(* timeout: a failed attempt increases the attempt counter by one and no   *)
(* attempt is made once the counter exceeds retries.                       *)
(***************************************************************************)
C33_CallTerminates ==
    /\ [](pc = "harness" => AttemptsBounded)
    /\ [][pc = "harness" => FailedAttemptCounts]_vars
    /\ (te.status = "running") ~> CallOver

\* a call has raised after retries + 1 failed attempts
C33_Witness ==
    /\ pc = "harness"
    /\ retries >= 1
    /\ te.status = "raised"
    /\ Attempts = retries + 1
    /\ te.attempt = retries + 1

\* the calls of test_endpoint of a run that reaches _build_summary: one per
\* spec of the plan and concurrent_iterations per probed endpoint
CallsOfRun == Len(PlanOrder(plan)) + Len(PerformanceTargets) * concurrent_iterations

(***************************************************************************)
(* C34: in every summary of _build_summary, successful + failed =          *)
(* totalEndpoints and 0 <= successRate <= 100; totalEndpoints is the       *)
(* length of the store, which holds one record per attempt, those of the   *)
(* retried attempts of the sequential phase and of the prober included,    *)
(* and so is at least the number of calls made and may exceed it.          *)
(***************************************************************************)
C34_SummaryCountsAttempts ==
    Aggregated =>
        /\ summary.successful + summary.failed = summary.totalEndpoints
        /\ summary.successful = Successes
        /\ summary.successful >= 0
        /\ summary.failed >= 0
        /\ summary.successRate >= 0
        /\ summary.successRate <= 10000
        /\ summary.totalEndpoints = Len(endpoint_results)
        /\ pc \in {"finish", "done"} =>
              /\ summary.totalEndpoints >= CallsOfRun
              /\ summary.totalEndpoints <= CallsOfRun * (retries + 1)

\* a summary that counts more records than calls were made: an attempt was
\* retried
C34_Witness ==
    /\ pc = "done"
    /\ Aggregated
    /\ retries >= 1
    /\ summary.totalEndpoints > CallsOfRun
    /\ summary.failed >= 1
    /\ summary.successful >= 1
    /\ \E i \in 1..Len(endpoint_results) :
          endpoint_results[i].name = "Performance snapshot"

\* run_monitors has returned its list to main
MonitorsReturned == pc = "exited"

\* the runs made so far are those of the first targets, in the order given
RunsFollowTargets ==
    /\ Len(run_results) <= Len(TargetsOf(args))
    /\ \A i \in 1..Len(run_results) :
          run_results[i].base_url = rstrip(TargetsOf(args)[i])

(***************************************************************************)
(* C35: run_monitors returns one MonitorRun per configured target, in the  *)
(* order the targets were given, and the MonitorRun of the one built-in    *)
(* default target when none is configured; the list it returns is never    *)
(* empty, so that main never returns 1 for want of results: it returns 1   *)
(* only for a worst rate below the fail_threshold.                         *)
(***************************************************************************)
C35_OneRunPerTarget ==
    /\ RunsFollowTargets
    /\ MonitorsReturned =>
          /\ args.targets # <<>> =>
                /\ Len(run_results) = Len(args.targets)
                /\ \A i \in 1..Len(args.targets) :
                      run_results[i].base_url = rstrip(args.targets[i])
          /\ args.targets = <<>> =>
                /\ Len(run_results) = 1
                /\ run_results[1].base_url = DefaultTarget
          /\ run_results # <<>>
          /\ exit_code = 1 => WorstRate(run_results) * 10 < args.fail_threshold

\* two targets were given and run in that order
C35_Witness ==
    /\ MonitorsReturned
    /\ Len(args.targets) = 2
    /\ args.targets[1] # args.targets[2]
    /\ run_results[1].base_url = rstrip(args.targets[1])
    /\ run_results[2].base_url = rstrip(args.targets[2])
    /\ run_results[1].base_url # run_results[2].base_url

\* the run of some target ended with the error summary of lines 412-414,
\* which has no successRate
SomeRunFailed ==
    \E i \in 1..Len(run_results) : run_results[i].summary.kind = "error"

(***************************************************************************)
(* C36: a target whose run ended with an error summary counts in main as a *)
(* success rate of 0: the exit code is then 1 for every fail_threshold     *)
(* above 0, whatever the rates of the other targets, and 0 only for a      *)
(* fail_threshold of 0 or below.                                           *)
(***************************************************************************)
C36_ErrorRunCountsAsZero ==
    (MonitorsReturned /\ SomeRunFailed) =>
        /\ WorstRate(run_results) = 0
        /\ args.fail_threshold > 0 => exit_code = 1
        /\ args.fail_threshold <= 0 => exit_code = 0

\* an error run next to a run where every request succeeded, under a
\* positive threshold
C36_Witness ==
    /\ MonitorsReturned
    /\ Len(run_results) = 2
    /\ run_results[1].summary.kind = "summary"
    /\ run_results[1].summary.successRate = 10000
    /\ run_results[2].summary.kind = "error"
    /\ args.fail_threshold = 33333
    /\ exit_code = 1

\* a pair of numbers, as bootstrap_context may have sampled it
NumericPair(c) == c # NoCoords /\ Len(c) = 2 /\ IsNumber(c[1]) /\ IsNumber(c[2])

\* the plan holds the "Taxi nearest stops" spec, posted with these coordinates
TaxiNearestWith(coords) ==
    \E g \in 1..Len(plan) : \E i \in 1..Len(plan[g].specs) :
        LET spec == plan[g].specs[i] IN
        /\ plan[g].group = "Taxi"
        /\ spec.name = "Taxi nearest stops"
        /\ \E k \in 1..Len(spec.json) :
              spec.json[k] = Param("location.latitude", coords[1])
        /\ \E k \in 1..Len(spec.json) :
              spec.json[k] = Param("location.longitude", coords[2])

(***************************************************************************)
(* C37: the plan holds the "Taxi nearest stops" spec whenever a numeric    *)
(* coordinate pair is to be had from the taxi seed or, failing that, from  *)
(* the graph seed: with the taxi coordinates when they are a numeric pair, *)
(* and with graph_coords when the taxi sample is missing or non-numeric    *)
(* and graph_coords is a numeric pair.                                     *)
(***************************************************************************)
C37_TaxiNearestFallsBackToGraph ==
    plan # <<>> =>
        /\ NumericPair(context.taxi_coords) => TaxiNearestWith(context.taxi_coords)
        /\ (~NumericPair(context.taxi_coords) /\ NumericPair(context.graph_coords))
              => TaxiNearestWith(context.graph_coords)

\* the steps of thread w of the pool; its request returns or fails within
\* the timeout
ThreadRuns(w) ==
    /\ w \in DOMAIN workers
    /\ \/ WorkerStep(w)
       \/ W_Nominal(w)
       \/ W_BadStatus(w)
       \/ W_Blip(w)
       \/ W_Outage(w)

\* every thread that can take a step takes one in the end, and so does the
\* main thread, which starts the pool and leaves it
\* pools of several threads whose tasks make one call each, and pools of one
\* thread whose tasks make several; one incident at most, with one retry
InitProberFair ==
    /\ \E r \in {0, 1}, threads \in 1..MaxThreads, iterations \in 1..MaxIterations :
          /\ threads = 1 \/ iterations = 1
          /\ Constructed(DefaultTarget, r, threads, iterations)
    /\ NothingRunning
    /\ OutsideIdle
    /\ pc = "perf"
    /\ faults = 1

SpecProberFair ==
    /\ InitProberFair
    /\ [][NextProber]_vars
    /\ \A w \in 1..(MaxThreads + 1) : WF_vars(ThreadRuns(w))
    /\ WF_vars(RunPerfStart \/ RunJoin)

\* a thread waits for the lock that another thread holds
LockContended ==
    \E w, v \in DOMAIN workers :
        /\ workers[w].pc \in {"record", "warn"}
        /\ workers[v].pc \in {"recording", "warning"}

\* a thread of the pool can take a step, or all are idle with no task left
PoolCanMove ==
    \/ PoolIdle
    \/ \E w \in DOMAIN workers : ENABLED ThreadRuns(w)

(***************************************************************************)
(* C38: the prober neither deadlocks nor runs for ever: under every        *)
(* interleaving of the threads of the pool, which contend for the lock of  *)
(* the run when they record and log, and whatever attempts fail, some      *)
(* thread can always take a step until all are done, every task makes its  *)
(* concurrent_iterations calls and run_performance_checks returns, when    *)
(* each request returns or fails within its timeout.                       *)
(***************************************************************************)
C38_ProberTerminates ==
    /\ [](pc = "join" => PoolCanMove)
    /\ [](ProberOver =>
            /\ PoolIdle
            /\ \A t \in 1..Len(PerformanceTargets) :
                  ProbeRecords(PerformanceTargets[t].name) >= concurrent_iterations)
    /\ (pc = "perf") ~> ProberOver

\* a call of the prober has raised, and a thread waits for the lock while
\* the other thread is appending its record
C38_Witness ==
    /\ pc = "join"
    /\ Len(workers) = 2
    /\ ProbeWarned(PerformanceTargets[1].name)
    /\ LockContended
    /\ workers[1].pc = "record"
    /\ workers[2].pc = "recording"
    /\ lock = 2
    /\ Len(endpoint_results) >= 2

\* the primary and the secondary sample are the first and the second name of
\* one seed response, of those that the target gives
FromOneResponse(primary, secondary) ==
    \E resp \in SeedResponses :
        LET v == _fetch_json(resp) IN
        /\ ~FirstNameRaises(v)
        /\ ~SecondNameRaises(v)
        /\ primary = _first_name(v)
        /\ secondary = _second_name(v)

(***************************************************************************)
(* C39: for GA and for MyCiti, the primary and the secondary stop name     *)
(* that bootstrap_context has stored are the name of the first and of the  *)
(* second element of one and the same seed response, also when the stop    *)
(* list of the target changes or fails between requests.                   *)
(***************************************************************************)
C39_SamplesFromOneResponse ==
    pc \in {"plan", "exec"} =>
        /\ FromOneResponse(context.ga_stop, context.ga_stop_alt)
        /\ FromOneResponse(context.myciti_stop, context.myciti_stop_alt)

\* the arguments of the constructor as given: retries down to -2, threads and
\* iterations down to -1
GivenRetries == {-2, -1, 0}
GivenThreads == {-1, 0, 1, 2}
GivenIterations == {-1, 0, 1}

\* the monitor is constructed with the arguments that args keeps, and runs
\* its prober against a target where one incident may happen
InitClamp ==
    /\ \E r \in GivenRetries, threads \in GivenThreads, iterations \in GivenIterations :
          /\ args = [targets |-> <<>>, fail_threshold |-> 0, retries |-> r,
                     concurrent_threads |-> threads,
                     concurrent_iterations |-> iterations]
          /\ Constructed(DefaultTarget, r, threads, iterations)
    /\ NothingRunning
    /\ run_results = <<>>
    /\ exit_code = -1
    /\ test_stats = NoStats
    /\ status_line = ""
    /\ pc = "perf"
    /\ faults = 1

SpecClamp == InitClamp /\ [][NextProber]_vars

(***************************************************************************)
(* C40: the constructor clamps its configuration: a negative retries       *)
(* behaves as 0, every call of test_endpoint making exactly one attempt,   *)
(* and concurrent_threads and concurrent_iterations below 1 behave as 1,   *)
(* the prober running a pool of one thread and executing every probed      *)
(* endpoint at least once.                                                 *)
(***************************************************************************)
C40_ConfigurationClamped ==
    /\ args.retries < 0 =>
          /\ retries = 0
          /\ \A w \in DOMAIN workers : Len(workers[w].call.seen) <= 1
          /\ ProberOver =>
                \A t \in 1..Len(PerformanceTargets) :
                    ProbeRecords(PerformanceTargets[t].name) = concurrent_iterations
    /\ args.retries >= 0 => retries = args.retries
    /\ args.concurrent_threads < 1 =>
          /\ concurrent_threads = 1
          /\ pc # "perf" => Len(workers) = 1
    /\ args.concurrent_threads >= 1 => concurrent_threads = args.concurrent_threads
    /\ args.concurrent_iterations < 1 =>
          /\ concurrent_iterations = 1
          /\ ProberOver =>
                \A t \in 1..Len(PerformanceTargets) :
                    ProbeRecords(PerformanceTargets[t].name) >= 1
    /\ args.concurrent_iterations >= 1 =>
          concurrent_iterations = args.concurrent_iterations

\* a monitor given retries -2, zero threads and -1 iterations has run its
\* prober: three calls of one attempt, one of them failed
C40_Witness ==
    /\ ProberOver
    /\ args.retries = -2
    /\ args.concurrent_threads = 0
    /\ args.concurrent_iterations = -1
    /\ Len(endpoint_results) = 3
    /\ \E i \in 1..3 : endpoint_results[i].status_code = 0

====
